---- MODULE Spec2Model ----
(***************************************************************************)
(* Model of the deep-research pipeline: the three copies of the research   *)
(* job (src/app/api/research/route.ts, the blob-storing variant in         *)
(* unnamed/part_001, and src/app/api/research/background/route.ts), their  *)
(* tolerant JSON parser and their fence stripper.                          *)
(*                                                                         *)
(* A text is a sequence of one-character strings; a message or a report    *)
(* body is a sequence of tokens (a token is a string of any length).       *)
(***************************************************************************)
EXTENDS Integers, Sequences, FiniteSets, TLC

\* ------------------------------------------------------------------
\* Characters
\* ------------------------------------------------------------------
DQ == "\""
SQ == "'"
BS == "\\"
\* U+0060, the fence character (TLA+ strings cannot hold it)
BT == "<backtick>"

Digits == {"0", "1", "2", "3", "4", "5", "6", "7", "8", "9"}

Letters ==
  {"a", "b", "c", "d", "e", "f", "g", "h", "i", "j", "k", "l", "m",
   "n", "o", "p", "q", "r", "s", "t", "u", "v", "w", "x", "y", "z",
   "A", "B", "C", "D", "E", "F", "G", "H", "I", "J", "K", "L", "M",
   "N", "O", "P", "Q", "R", "S", "T", "U", "V", "W", "X", "Y", "Z"}

\* JSON insignificant whitespace (ECMA-404): space, tab, line feed, carriage return.
JsonWS == {" ", "\t", "\n", "\r"}

\* The regular expression class \s and String.prototype.trim also take form feed.
ReWS == JsonWS \cup {"\f"}

\* The regular expression class \w.
WordChars == Letters \cup Digits \cup {"_"}

HexChars == Digits \cup {"a", "b", "c", "d", "e", "f", "A", "B", "C", "D", "E", "F"}

\* ------------------------------------------------------------------
\* Text helpers
\* ------------------------------------------------------------------
Sub(t, a, b) == IF a > b THEN << >> ELSE SubSeq(t, a, b)

\* Whether pattern p occurs in t at position i.
HasAt(t, i, p) ==
  /\ i >= 1
  /\ i + Len(p) - 1 <= Len(t)
  /\ \A j \in 1..Len(p) : t[i + j - 1] = p[j]

StartsWith(t, p) == HasAt(t, 1, p)

EndsWith(t, p) == HasAt(t, Len(t) - Len(p) + 1, p)

\* First position >= i of t holding a character outside class (Len(t)+1 when none).
RECURSIVE SkipClass(_, _, _)
SkipClass(t, i, class) ==
  IF i <= Len(t) /\ t[i] \in class THEN SkipClass(t, i + 1, class) ELSE i

\* Last position <= i of t holding a character outside class (0 when none).
RECURSIVE SkipClassBack(_, _, _)
SkipClassBack(t, i, class) ==
  IF i >= 1 /\ t[i] \in class THEN SkipClassBack(t, i - 1, class) ELSE i

\* String.prototype.trim
Trim(t) ==
  LET a == SkipClass(t, 1, ReWS)
      b == SkipClassBack(t, Len(t), ReWS)
  IN Sub(t, a, b)

\* ------------------------------------------------------------------
\* JSON values: one record shape for every kind of value.
\*   t: the kind; s: the characters of a string, number or member key;
\*   k: the elements of an array, the members of an object (each a "pair"
\*      holding its value as its one element).
\* ------------------------------------------------------------------
JVal(kind, chars, kids) == [t |-> kind, s |-> chars, k |-> kids]

JNull == JVal("null", << >>, << >>)
JUndefined == JVal("undefined", << >>, << >>)
JTrue == JVal("true", << >>, << >>)
JFalse == JVal("false", << >>, << >>)
JNum(lexeme) == JVal("number", lexeme, << >>)
JStr(chars) == JVal("string", chars, << >>)
JArr(elems) == JVal("array", << >>, elems)
JObj(members) == JVal("object", << >>, members)
JPair(key, val) == JVal("pair", key, <<val>>)

\* obj[key] = val on an object's member list: an existing key keeps its place.
PutMember(members, key, val) ==
  IF \E n \in 1..Len(members) : members[n].s = key
    THEN [n \in 1..Len(members) |->
            IF members[n].s = key THEN JPair(key, val) ELSE members[n]]
    ELSE Append(members, JPair(key, val))

HasMember(v, key) ==
  /\ v.t = "object"
  /\ \E n \in 1..Len(v.k) : v.k[n].s = key

\* obj[key], undefined when absent.
GetMember(v, key) ==
  IF HasMember(v, key)
    THEN (v.k[CHOOSE n \in 1..Len(v.k) : v.k[n].s = key]).k[1]
    ELSE JUndefined

\* ------------------------------------------------------------------
\* JSON.parse (strict), by recursive descent. A parse result is
\* [ok, pos, val]: pos is the position after the value.
\* ------------------------------------------------------------------
PFail == [ok |-> FALSE, pos |-> 0, val |-> JNull]
POk(p, v) == [ok |-> TRUE, pos |-> p, val |-> v]

SimpleEscapes == {DQ, BS, "/", "b", "f", "n", "r", "t"}

Unescape(c) ==
  CASE c = "n" -> "\n"
    [] c = "t" -> "\t"
    [] c = "r" -> "\r"
    [] c = "f" -> "\f"
    [] c = "b" -> "<BS>"
    [] OTHER -> c

\* The characters of a string literal from position j (after the opening quote).
RECURSIVE ScanString(_, _, _)
ScanString(t, j, acc) ==
  IF j > Len(t) THEN PFail
  ELSE IF t[j] = DQ THEN POk(j + 1, JStr(acc))
  ELSE IF t[j] = BS THEN
    IF j + 1 <= Len(t) /\ t[j + 1] \in SimpleEscapes
      THEN ScanString(t, j + 2, Append(acc, Unescape(t[j + 1])))
    ELSE IF /\ j + 5 <= Len(t)
            /\ t[j + 1] = "u"
            /\ \A n \in 2..5 : t[j + n] \in HexChars
      THEN ScanString(t, j + 6, acc \o Sub(t, j, j + 5))
    ELSE PFail
  ELSE IF t[j] \in {"\n", "\t", "\r", "\f"} THEN PFail
  ELSE ScanString(t, j + 1, Append(acc, t[j]))

\* A number, -?(0|[1-9][0-9]*)(\.[0-9]+)?([eE][+-]?[0-9]+)?, scanned part by
\* part: i is where it starts, the last parameter where the part starts.
NumberEnd(t, i, e) == POk(e, JNum(Sub(t, i, e - 1)))

NumberExpDigits(t, i, x) ==
  IF SkipClass(t, x, Digits) > x THEN NumberEnd(t, i, SkipClass(t, x, Digits))
  ELSE PFail

NumberExp(t, i, f) ==
  IF f <= Len(t) /\ t[f] \in {"e", "E"}
    THEN IF f + 1 <= Len(t) /\ t[f + 1] \in {"+", "-"}
           THEN NumberExpDigits(t, i, f + 2)
           ELSE NumberExpDigits(t, i, f + 1)
    ELSE NumberEnd(t, i, f)

NumberFraction(t, i, b) ==
  IF b <= Len(t) /\ t[b] = "."
    THEN IF SkipClass(t, b + 1, Digits) > b + 1
           THEN NumberExp(t, i, SkipClass(t, b + 1, Digits))
           ELSE PFail
    ELSE NumberExp(t, i, b)

NumberInt(t, i, a) ==
  IF a > Len(t) \/ t[a] \notin Digits THEN PFail
  ELSE IF t[a] = "0" THEN NumberFraction(t, i, a + 1)
  ELSE NumberFraction(t, i, SkipClass(t, a, Digits))

ScanNumber(t, i) ==
  IF t[i] = "-" THEN NumberInt(t, i, i + 1) ELSE NumberInt(t, i, i)

\* The parser's operators take what was just parsed as a parameter, so that
\* each step of the descent is one operator.
RECURSIVE ParseValue(_, _)
RECURSIVE ParseElements(_, _, _)
RECURSIVE ParseMembers(_, _, _)

\* After an element v, at position j: a comma and the next element, or ].
ElementsSep(t, v, j, acc) ==
  IF j > Len(t) THEN PFail
  ELSE IF t[j] = "," THEN
    ParseElements(t, SkipClass(t, j + 1, JsonWS), Append(acc, v.val))
  ELSE IF t[j] = "]" THEN POk(j + 1, JArr(Append(acc, v.val)))
  ELSE PFail

ElementsValue(t, v, acc) ==
  IF ~v.ok THEN PFail ELSE ElementsSep(t, v, SkipClass(t, v.pos, JsonWS), acc)

\* The elements of an array from position i (a value is expected there).
ParseElements(t, i, acc) == ElementsValue(t, ParseValue(t, i), acc)

\* After a member, at position j: a comma and the next member, or }.
MembersSep(t, j, acc) ==
  IF j > Len(t) THEN PFail
  ELSE IF t[j] = "," THEN ParseMembers(t, SkipClass(t, j + 1, JsonWS), acc)
  ELSE IF t[j] = "}" THEN POk(j + 1, JObj(acc))
  ELSE PFail

MembersValue(t, key, v, acc) ==
  IF ~v.ok THEN PFail
  ELSE MembersSep(t, SkipClass(t, v.pos, JsonWS), PutMember(acc, key.val.s, v.val))

MembersColon(t, key, c, acc) ==
  IF c > Len(t) \/ t[c] # ":" THEN PFail
  ELSE MembersValue(t, key, ParseValue(t, SkipClass(t, c + 1, JsonWS)), acc)

MembersKey(t, key, acc) ==
  IF ~key.ok THEN PFail
  ELSE MembersColon(t, key, SkipClass(t, key.pos, JsonWS), acc)

\* The members of an object from position i (a key is expected there).
ParseMembers(t, i, acc) ==
  IF i > Len(t) \/ t[i] # DQ THEN PFail
  ELSE MembersKey(t, ScanString(t, i + 1, << >>), acc)

\* After { at position j.
ObjectBody(t, j) ==
  IF j <= Len(t) /\ t[j] = "}" THEN POk(j + 1, JObj(<< >>))
  ELSE ParseMembers(t, j, << >>)

\* After [ at position j.
ArrayBody(t, j) ==
  IF j <= Len(t) /\ t[j] = "]" THEN POk(j + 1, JArr(<< >>))
  ELSE ParseElements(t, j, << >>)

ParseValue(t, i) ==
  IF i > Len(t) THEN PFail
  ELSE IF t[i] = "{" THEN ObjectBody(t, SkipClass(t, i + 1, JsonWS))
  ELSE IF t[i] = "[" THEN ArrayBody(t, SkipClass(t, i + 1, JsonWS))
  ELSE IF t[i] = DQ THEN ScanString(t, i + 1, << >>)
  ELSE IF t[i] \in Digits \cup {"-"} THEN ScanNumber(t, i)
  ELSE IF HasAt(t, i, <<"t", "r", "u", "e">>) THEN POk(i + 4, JTrue)
  ELSE IF HasAt(t, i, <<"f", "a", "l", "s", "e">>) THEN POk(i + 5, JFalse)
  ELSE IF HasAt(t, i, <<"n", "u", "l", "l">>) THEN POk(i + 4, JNull)
  ELSE PFail

\* The value v was parsed: only whitespace may follow it.
WholeText(t, v) ==
  IF v.ok /\ SkipClass(t, v.pos, JsonWS) = Len(t) + 1
    THEN [ok |-> TRUE, val |-> v.val]
    ELSE [ok |-> FALSE, val |-> JNull]

\* JSON.parse(text): [ok, val]; ok = FALSE is the SyntaxError it throws.
JSONparse(t) == WholeText(t, ParseValue(t, SkipClass(t, 1, JsonWS)))

\* ------------------------------------------------------------------
\* String.prototype.replace with a global regular expression.
\* A match attempted at position i is [ok, end, out], end the position after
\* the match, out its replacement. The leftmost match from the
\* scan position is replaced, what precedes it is copied, and the scan resumes
\* after the match.
\* ------------------------------------------------------------------
NoMatch == [ok |-> FALSE, end |-> 0, out |-> << >>]

\* /([{,]\s*)(\w+)(\s*:)/g replaced by $1"$2"$3, as written in route.ts and in
\* the blob-storing variant. The three classes are disjoint, so the greedy match
\* is the only one.
MatchBareKey(t, i) ==
  IF t[i] \notin {"{", ","} THEN NoMatch
  ELSE
    LET a == SkipClass(t, i + 1, ReWS)
        b == SkipClass(t, a, WordChars)
        c == SkipClass(t, b, ReWS)
    IN IF b > a /\ c <= Len(t) /\ t[c] = ":"
         THEN [ok |-> TRUE, end |-> c + 1,
               out |-> Sub(t, i, a - 1) \o <<DQ>> \o Sub(t, a, b - 1) \o <<DQ>>
                       \o Sub(t, b, c)]
         ELSE NoMatch

\* /([{,]\\s*)(\\w+)(\\s*:)/g replaced by $1"$2"$3, as written in
\* background/route.ts: each \\ of the literal is one backslash character, so
\* the pattern is [{,] \ s* \ w+ \ s* : over the letters s and w.
MatchBareKeyBg(t, i) ==
  IF t[i] \notin {"{", ","} THEN NoMatch
  ELSE IF ~HasAt(t, i + 1, <<BS>>) THEN NoMatch
  ELSE
    LET a == SkipClass(t, i + 2, {"s"})
        b == SkipClass(t, a + 1, {"w"})
        c == SkipClass(t, b + 1, {"s"})
    IN IF /\ HasAt(t, a, <<BS>>)
          /\ b > a + 1
          /\ HasAt(t, b, <<BS>>)
          /\ c <= Len(t) /\ t[c] = ":"
         THEN [ok |-> TRUE, end |-> c + 1,
               out |-> Sub(t, i, a - 1) \o <<DQ>> \o Sub(t, a, b - 1) \o <<DQ>>
                       \o Sub(t, b, c)]
         ELSE NoMatch

Fence == <<BT, BT, BT>>
FenceJson == <<BT, BT, BT, "j", "s", "o", "n">>

\* /```json\n?|\n?```/g, the first alternative tried first.
MatchFence(t, i) ==
  IF HasAt(t, i, FenceJson)
    THEN [ok |-> TRUE,
          end |-> IF HasAt(t, i + 7, <<"\n">>) THEN i + 8 ELSE i + 7,
          out |-> << >>]
  ELSE IF HasAt(t, i, <<"\n">> \o Fence)
    THEN [ok |-> TRUE, end |-> i + 4, out |-> << >>]
  ELSE IF HasAt(t, i, Fence)
    THEN [ok |-> TRUE, end |-> i + 3, out |-> << >>]
  ELSE NoMatch

\* The match of the named regular expression attempted at position i.
MatchAt(re, t, i) ==
  CASE re = "bareKey" -> MatchBareKey(t, i)
    [] re = "bareKeyBg" -> MatchBareKeyBg(t, i)
    [] re = "fence" -> MatchFence(t, i)

Min(S) == CHOOSE x \in S : \A y \in S : x <= y

\* The position of the leftmost match from i on, 0 when there is none.
FirstMatch(re, t, i) ==
  IF \E j \in i..Len(t) : MatchAt(re, t, j).ok
    THEN Min({j \in i..Len(t) : MatchAt(re, t, j).ok})
    ELSE 0

RECURSIVE ReplaceAll(_, _, _, _)
ReplaceFrom(re, t, i, out, j, m) ==
  ReplaceAll(re, t, m.end, out \o Sub(t, i, j - 1) \o m.out)

ReplaceNext(re, t, i, out, j) ==
  IF j = 0 THEN out \o Sub(t, i, Len(t))
  ELSE ReplaceFrom(re, t, i, out, j, MatchAt(re, t, j))

ReplaceAll(re, t, i, out) == ReplaceNext(re, t, i, out, FirstMatch(re, t, i))

\* .replace(/'/g, '"')
ReplaceSingleQuotes(t) == [n \in 1..Len(t) |-> IF t[n] = SQ THEN DQ ELSE t[n]]

\* ------------------------------------------------------------------
\* parsePartialJson, one definition per copy of the source.
\* ------------------------------------------------------------------
ParseResult(st, v) == [state |-> st, value |-> v]

\* The inner try: JSON.parse of the repaired text.
RepairedParse(again) ==
  IF again.ok THEN ParseResult("repaired-parse", again.val)
  ELSE ParseResult("failed-parse", JNull)

\* The outer try, strict being what JSON.parse(text) gave.
StrictOrRepair(re, text, strict) ==
  IF strict.ok THEN ParseResult("successful-parse", strict.val)
  ELSE RepairedParse(JSONparse(ReplaceSingleQuotes(ReplaceAll(re, text, 1, << >>))))

\* parsePartialJson with the bare-key regex of the copy.
parsePartialJsonWith(re, text) ==
  StrictOrRepair(re, text, JSONparse(text))

\* src/app/api/research/route.ts
parsePartialJsonRoute(text) == parsePartialJsonWith("bareKey", text)

\* unnamed/part_001 (the blob-storing variant of route.ts)
parsePartialJsonBlob(text) == parsePartialJsonWith("bareKey", text)

\* A variant that tries the repaired text before the text itself.
parsePartialJsonRepairFirst(text) ==
  RepairedParse(JSONparse(ReplaceSingleQuotes(ReplaceAll("bareKey", text, 1, << >>))))

\* src/app/api/research/background/route.ts
parsePartialJsonBg(text) == parsePartialJsonWith("bareKeyBg", text)

\* ------------------------------------------------------------------
\* removeJsonMarkdown
\* ------------------------------------------------------------------
\* route.ts and the blob-storing variant
removeJsonMarkdown(text) == Trim(ReplaceAll("fence", text, 1, << >>))

\* background/route.ts
removeJsonMarkdownBg(text) ==
  LET t0 == Trim(text)
      t1 == IF StartsWith(t0, FenceJson) THEN Sub(t0, 8, Len(t0))
            ELSE IF StartsWith(t0, <<"j", "s", "o", "n">>) THEN Sub(t0, 5, Len(t0))
            ELSE IF StartsWith(t0, Fence) THEN Sub(t0, 4, Len(t0))
            ELSE t0
      t2 == IF EndsWith(t1, Fence) THEN Sub(t1, 1, Len(t1) - 3) ELSE t1
  IN Trim(t2)

\* ------------------------------------------------------------------
\* The query schema and the mapping of a parsed array to query items
\* ------------------------------------------------------------------
KeyQuery == <<"q", "u", "e", "r", "y">>
KeyGoal == <<"r", "e", "s", "e", "a", "r", "c", "h", "G", "o", "a", "l">>

\* getSERPQuerySchema().safeParse(value).success: an array of objects, each with
\* string fields query and researchGoal.
SchemaAccepts(v) ==
  /\ v.t = "array"
  /\ \A n \in 1..Len(v.k) :
       /\ v.k[n].t = "object"
       /\ GetMember(v.k[n], KeyQuery).t = "string"
       /\ GetMember(v.k[n], KeyGoal).t = "string"

\* The value safeParse returns, a result object whether or not it succeeded.
\* success is the only field that tells; data holds the fields of the schema.
safeParse(v) ==
  IF SchemaAccepts(v)
    THEN [success |-> TRUE,
          data |-> JArr([n \in 1..Len(v.k) |->
                    JObj(<<JPair(KeyQuery, GetMember(v.k[n], KeyQuery)),
                           JPair(KeyGoal, GetMember(v.k[n], KeyGoal))>>)])]
    ELSE [success |-> FALSE, data |-> JUndefined]

\* JavaScript truthiness of a parsed value.
Truthy(v) ==
  CASE v.t \in {"null", "undefined", "false"} -> FALSE
    [] v.t = "string" -> v.s # << >>
    [] v.t = "number" ->
         \E n \in 1..Len(v.s) :
           /\ v.s[n] \in Digits \ {"0"}
           /\ \A m \in 1..n : v.s[m] \notin {"e", "E"}
    [] OTHER -> TRUE

\* Truthiness of the object safeParse returns: every object is truthy.
TruthyResult(r) == TRUE

\* { state: "unprocessed", learning: "", ...pick(item, ["query", "researchGoal"]) }
\* pick copies the own properties the item has; a value that is no object has none.
NewItem(item) ==
  [query |-> GetMember(item, KeyQuery),
   researchGoal |-> GetMember(item, KeyGoal),
   state |-> "unprocessed",
   learning |-> << >>]

\* value.map(item => ...)
MapItems(arr) == [n \in 1..Len(arr.k) |-> NewItem(arr.k[n])]

\* ------------------------------------------------------------------
\* Bounds and inputs
\* ------------------------------------------------------------------
\* Most query items a generation stream of the model carries.
MaxQueries == 3

\* Longest text of the exhaustive parser inputs.
MaxTextLen == 4

Copies == {"route", "blob", "bg"}

\* JavaScript null / undefined for the string-valued variables.
Null == "null"

\* researchError = null
NoError == << >>

\* {"query":"q<n>","researchGoal":"g<n>"}
ItemText(n) ==
  <<"{", DQ>> \o KeyQuery \o <<DQ, ":", DQ, "q", ToString(n), DQ, ",", DQ>>
  \o KeyGoal \o <<DQ, ":", DQ, "g", ToString(n), DQ, "}">>

\* The chunks of an array of n items, one chunk per item.
ItemChunks(n) ==
  [m \in 1..n |->
     (IF m = 1 THEN <<"[">> ELSE << >>) \o ItemText(m)
     \o (IF m = n THEN <<"]">> ELSE <<",">>)]

RECURSIVE Concat(_)
Concat(chunks) ==
  IF chunks = << >> THEN << >> ELSE Head(chunks) \o Concat(Tail(chunks))

ArrayText(n) == Concat(ItemChunks(n))

\* [{query:'q1',researchGoal:'g1'}]
LooseArrayText ==
  <<"[", "{">> \o KeyQuery \o <<":", SQ, "q", "1", SQ, ",">> \o KeyGoal
  \o <<":", SQ, "g", "1", SQ, "}", "]">>

\* The texts a generation stream may deliver, as chunk sequences.
GenStreams ==
  {ItemChunks(n) : n \in 1..MaxQueries}
  \cup {<<ArrayText(n)>> : n \in 1..MaxQueries}
  \cup {
    << >>,
    <<FenceJson \o <<"\n">>, ArrayText(1), <<"\n">> \o Fence>>,
    <<<<"j", "s", "o", "n">>, ArrayText(1)>>,
    <<LooseArrayText>>,
    <<<<"n", "o", "t", " ", "j", "s", "o", "n">>>>,
    <<<<"[", "]">>>>,
    <<ItemText(1)>>,
    <<<<"[", "1", "]">>>>,
    <<<<"[", "{", DQ>> \o KeyQuery \o <<DQ, ":", DQ, "q", DQ, "}", "]">>>>,
    <<ArrayText(1), <<"x">>>>
  }

\* What a per-query stream may accumulate to.
LearningTexts == {<<"La">>, <<"Lb">>}

\* What the synthesis stream may accumulate to: nothing, blanks, markdown.
ReportTexts == {<< >>, <<" ", "\n">>, <<"#", " ", "R">>}

\* The identifiers nanoid() may return.
ReportIds == {"id1", "id2"}

\* The store's put may reject with this message.
StoreErrorMessage == "blob store unavailable"

\* ------------------------------------------------------------------
\* State
\* ------------------------------------------------------------------
VARIABLES
  copy,           \* which copy of the pipeline runs the job
  pc,             \* the step the job is in
  callbackUrl,    \* the request's callbackUrl || null
  appUrl,         \* APP_URL of the environment
  streamOpen,     \* the query-generation stream was returned by the model call
  stream,         \* its chunks not yet consumed
  queryContent,   \* the accumulated buffer
  parsed,         \* data / parsedData: the last result of parsePartialJson
  queries,        \* the query items
  idx,            \* the Retrieving loop's next item (1-based)
  learnings,
  reportContent,
  researchError,  \* the error's message as tokens, NoError when null
  reportId,
  reportBlobUrl,
  blobs,          \* what the store holds: the accepted puts, in order
  message,        \* slackTextMessage of the terminal notification
  delivering,     \* the terminal delivery is under way
  attempt,        \* fetchWithRetry's i
  backoffs,       \* the waits fetchWithRetry made, in milliseconds
  wire,           \* the requests sent to the callback target, with their outcome
  terminal,       \* the terminal messages whose delivery was started
  calls,          \* the external operations issued, in order
  raised,         \* the items whose model call or stream raised
  visited,        \* the steps entered, in order
  failedAt,       \* the step whose failure was caught, "none" when none was
  synthOut,       \* what the synthesis stream accumulated to, once it ended
  callbackError,  \* what the catch around the terminal delivery caught, if anything
  text,           \* parser check: the input text
  presult,        \* parser check: what parsePartialJson returned for it
  entry,          \* who called: "trigger" (a client of the trigger endpoint),
                  \* "direct" (a caller of the background endpoint), "job" (neither)
  body,           \* the request body
  secret,         \* BACKGROUND_TASK_SECRET of the environment
  envKey,         \* process.env.GOOGLE_GENERATIVE_AI_API_KEY
  providedSecret, \* the X-Internal-Secret header of the background request
  response,       \* what the trigger endpoint returned to its caller
  hooks,          \* the notifications the endpoints themselves started, in order
  bgCall,         \* the request to the background endpoint
  bgResponse,     \* the status the background endpoint returned
  started,        \* the research job was started
  hookLog,        \* how the notifications of hooks ended, in the order they ended
  jobs,           \* requests served side by side by one process, with the
                  \* credential each of their model calls was made with
  serverKey,      \* GOOGLE_GENERATIVE_AI_API_KEY as the server was started with
  view            \* the report viewer: the id asked for, what the store listed,
                  \* how the fetch went, what was shown

jobVars ==
  <<copy, pc, callbackUrl, appUrl, streamOpen, stream, queryContent, parsed,
    queries, idx, learnings, reportContent, researchError, reportId,
    reportBlobUrl, blobs, message, delivering, attempt, backoffs, wire,
    terminal, calls, raised, visited, failedAt, synthOut, callbackError>>

parseVars == <<text, presult>>

triggerVars ==
  <<entry, body, secret, envKey, providedSecret, response, hooks, bgCall,
    bgResponse, started>>

sideVars == <<hookLog, jobs, serverKey, view>>

vars == <<jobVars, parseVars, triggerVars, sideVars>>

Steps ==
  <<"Generating", "Retrieving", "Synthesizing", "Persisting", "Notifying", "Done">>

Rank(step) == CHOOSE n \in 1..Len(Steps) : Steps[n] = step

NoResult == ParseResult("none", JNull)

parsePartialJsonOf(c, t) ==
  CASE c = "route" -> parsePartialJsonRoute(t)
    [] c = "blob" -> parsePartialJsonBlob(t)
    [] c = "bg" -> parsePartialJsonBg(t)

\* The job as constructed: the locals of runResearchInBackground / POST before
\* the first model call.
JobStart ==
  /\ pc = "Generating"
  /\ streamOpen = FALSE
  /\ stream = << >>
  /\ queryContent = << >>
  /\ parsed = NoResult
  /\ queries = << >>
  /\ idx = 1
  /\ learnings = << >>
  /\ reportContent = << >>
  /\ researchError = NoError
  /\ reportId = Null
  /\ reportBlobUrl = Null
  /\ blobs = << >>
  /\ message = << >>
  /\ delivering = FALSE
  /\ attempt = 0
  /\ backoffs = << >>
  /\ wire = << >>
  /\ terminal = << >>
  /\ calls = << >>
  /\ raised = {}
  /\ visited = <<"Generating">>
  /\ failedAt = "none"
  /\ synthOut = [done |-> FALSE, text |-> << >>]
  /\ callbackError = Null

\* A field the request body does not have.
Absent == "absent"

\* A body req.json() rejects.
NotJson == [json |-> FALSE, query |-> Absent, callbackUrl |-> Absent, apiKey |-> Absent]

\* No response was returned yet.
NoResponse == [status |-> "none", success |-> FALSE, text |-> "none"]

\* The report viewer before any page was asked for: the id asked for, what
\* the store holds, where the page is, what list() and fetch() gave,
\* reportMarkdown and error of getReportData, and what was shown.
NoView ==
  [id |-> "none", store |-> << >>, stage |-> "idle", listing |-> << >>,
   listError |-> FALSE, fetched |-> "none", reportMarkdown |-> Null,
   error |-> Null, shown |-> "none"]

\* No sibling requests, no page asked for.
SideIdle ==
  /\ jobs = << >>
  /\ serverKey = Null
  /\ view = NoView

\* The endpoints before any request: nothing sent, nothing returned.
EndpointsIdle ==
  /\ response = NoResponse
  /\ hooks = << >>
  /\ hookLog = << >>
  /\ bgResponse = "none"

\* The job taken on its own, as started by some accepted request.
JobAlone ==
  /\ entry = "job"
  /\ body = NotJson
  /\ secret = Null
  /\ envKey = Null
  /\ providedSecret = Null
  /\ bgCall = "none"
  /\ started = TRUE
  /\ EndpointsIdle
  /\ SideIdle

Init ==
  /\ copy \in Copies
  /\ callbackUrl \in {Null, "https://hook"}
  /\ appUrl \in {Null, "https://app"}
  /\ JobStart
  /\ text = << >>
  /\ presult = NoResult
  /\ JobAlone

\* Entering a step.
Goto(step) ==
  /\ pc' = step
  /\ visited' = IF step = pc THEN visited ELSE Append(visited, step)

\* A variant of the catch that records the error and stays in the step.
OuterCatchStays(msg) ==
  /\ researchError' = msg
  /\ reportContent' = <<"Research failed: ">> \o msg
  /\ reportId' = Null
  /\ failedAt' = pc
  /\ UNCHANGED <<pc, visited>>

\* The catch around the research steps: the error is recorded, the report body
\* replaced and the report id cleared; the job goes on to the notification.
OuterCatch(msg) ==
  /\ researchError' = msg
  /\ reportContent' = <<"Research failed: ">> \o msg
  /\ reportId' = Null
  /\ failedAt' = pc
  /\ Goto("Notifying")

\* ------------------------------------------------------------------
\* Step 1, Generating
\* ------------------------------------------------------------------
\* await streamText(...) for the query generation: it raises, or returns a stream.
GenCall ==
  /\ pc = "Generating"
  /\ ~streamOpen
  /\ calls' = Append(calls, "generate")
  /\ \/ /\ OuterCatch(<<"model error">>)
        /\ UNCHANGED <<streamOpen, stream>>
     \/ /\ streamOpen' = TRUE
        /\ stream' \in GenStreams
        /\ UNCHANGED <<pc, visited, researchError, reportContent, reportId, failedAt>>
  /\ UNCHANGED <<copy, callbackUrl, appUrl, queryContent, parsed, queries, idx,
                 learnings, reportBlobUrl, blobs, message, delivering, attempt,
                 backoffs, wire, terminal, raised, synthOut, callbackError, parseVars, triggerVars,
                 sideVars>>

\* A variant of the test that takes only a value parsed without repair.
AcceptsEarlyStrictOnly(data) ==
  /\ TruthyResult(safeParse(data.value))
  /\ data.state = "successful-parse"
  /\ Truthy(data.value)
  /\ data.value.t = "array"

\* The early-exit copies' test of a parse result inside the stream loop:
\*   if (querySchema.safeParse(data.value))
\*     if (data.state === "repaired-parse" || data.state === "successful-parse")
\*       if (data.value && Array.isArray(data.value))
AcceptsEarly(data) ==
  /\ TruthyResult(safeParse(data.value))
  /\ data.state \in {"repaired-parse", "successful-parse"}
  /\ Truthy(data.value)
  /\ data.value.t = "array"

\* The body of the early-exit loop after queryContent += textPart, data being
\* parsePartialJson(removeJsonMarkdown(queryContent)): on an accepted array the
\* loop is left and the check that follows it runs.
EarlyExit(data) ==
  /\ parsed' = data
  /\ IF AcceptsEarly(data)
       THEN /\ queries' = MapItems(data.value)
            /\ IF data.value.k = << >>
                 THEN OuterCatch(<<"Failed to generate valid initial research queries.">>)
                 ELSE /\ Goto("Retrieving")
                      /\ UNCHANGED <<researchError, reportContent, reportId, failedAt>>
       ELSE UNCHANGED <<queries, pc, visited, researchError, reportContent,
                        reportId, failedAt>>

\* The buffer after one more chunk.
Accumulate(content) ==
  /\ queryContent' = content
  /\ stream' = Tail(stream)
  /\ IF copy = "bg"
       THEN UNCHANGED <<parsed, queries, pc, visited, researchError,
                        reportContent, reportId, failedAt>>
       ELSE EarlyExit(parsePartialJsonOf(copy, removeJsonMarkdown(content)))

\* One iteration of for await (const textPart of initialQueryResult.textStream).
GenChunk ==
  /\ pc = "Generating"
  /\ streamOpen
  /\ stream # << >>
  /\ Accumulate(queryContent \o Head(stream))
  /\ UNCHANGED <<copy, callbackUrl, appUrl, streamOpen, idx, learnings,
                 reportBlobUrl, blobs, message, delivering, attempt, backoffs,
                 wire, terminal, calls, raised, synthOut, callbackError, parseVars, triggerVars,
                 sideVars>>

\* The stream raises while it is iterated.
GenFault ==
  /\ pc = "Generating"
  /\ streamOpen
  /\ OuterCatch(<<"stream error">>)
  /\ UNCHANGED <<copy, callbackUrl, appUrl, streamOpen, stream, queryContent,
                 parsed, queries, idx, learnings, reportBlobUrl, blobs, message,
                 delivering, attempt, backoffs, wire, terminal, calls, raised,
                 synthOut, callbackError, parseVars, triggerVars,
                 sideVars>>

\* queries = validationResult.data.map(...) when the data is an array, and the
\* check of queries.length that follows.
MapValidated(data) ==
  IF Truthy(data) /\ data.t = "array" /\ data.k # << >>
    THEN /\ queries' = MapItems(data)
         /\ Goto("Retrieving")
         /\ UNCHANGED <<researchError, reportContent, reportId, failedAt>>
    ELSE /\ queries' = << >>
         /\ OuterCatch(<<"Generated valid JSON for initial queries, but it was empty or not an array.">>)

\* const validationResult = querySchema.safeParse(parsedData.value) and its test.
Validate(validationResult) ==
  IF ~validationResult.success
    THEN /\ OuterCatch(<<"Initial research queries JSON failed schema validation">>)
         /\ UNCHANGED queries
    ELSE MapValidated(validationResult.data)

\* const parsedData = parsePartialJson(cleanedContent) and its test.
ParseOnce(parsedData) ==
  /\ parsed' = parsedData
  /\ IF parsedData.state = "failed-parse"
       THEN /\ OuterCatch(<<"Failed to parse initial research queries JSON.">>)
            /\ UNCHANGED queries
       ELSE Validate(safeParse(parsedData.value))

\* background/route.ts after the stream: clean, parse once, validate, map, check.
GenFinishBg == ParseOnce(parsePartialJsonBg(removeJsonMarkdownBg(queryContent)))

\* The stream ends. An early-exit copy that gets here never accepted a prefix.
GenEnd ==
  /\ pc = "Generating"
  /\ streamOpen
  /\ stream = << >>
  /\ IF copy = "bg"
       THEN GenFinishBg
       ELSE /\ OuterCatch(<<"Failed to generate valid initial research queries.">>)
            /\ UNCHANGED <<parsed, queries>>
  /\ UNCHANGED <<copy, callbackUrl, appUrl, streamOpen, stream, queryContent, idx,
                 learnings, reportBlobUrl, blobs, message, delivering, attempt,
                 backoffs, wire, terminal, calls, raised, synthOut, callbackError, parseVars, triggerVars,
                 sideVars>>

\* ------------------------------------------------------------------
\* Step 2, Retrieving
\* ------------------------------------------------------------------
\* The last item the loop visits: for (const item of queries) in route.ts,
\* i < queries.length in background/route.ts, i < 1 in the blob-storing variant.
LoopEnd == IF copy = "blob" THEN 1 ELSE Len(queries)

\* A variant that fails the job when the last item fails and none succeeded.
ProcessItemNeedsOneLearning ==
  /\ pc = "Retrieving"
  /\ idx <= LoopEnd
  /\ calls' = Append(calls, "search")
  /\ idx' = idx + 1
  /\ \/ /\ \E searchContent \in LearningTexts :
             /\ learnings' = Append(learnings, searchContent)
             /\ queries' = [queries EXCEPT ![idx].state = "processed",
                                           ![idx].learning = searchContent]
        /\ IF idx + 1 <= LoopEnd THEN UNCHANGED <<pc, visited>> ELSE Goto("Synthesizing")
        /\ UNCHANGED <<raised, researchError, reportContent, reportId, failedAt>>
     \/ /\ queries' = [queries EXCEPT ![idx].state = "failed"]
        /\ raised' = raised \cup {idx}
        /\ UNCHANGED learnings
        /\ IF idx + 1 <= LoopEnd
             THEN UNCHANGED <<pc, visited, researchError, reportContent, reportId, failedAt>>
           ELSE IF learnings = << >>
             THEN OuterCatch(<<"All queries failed">>)
           ELSE /\ Goto("Synthesizing")
                /\ UNCHANGED <<researchError, reportContent, reportId, failedAt>>
  /\ UNCHANGED <<copy, callbackUrl, appUrl, streamOpen, stream, queryContent,
                 parsed, reportBlobUrl,
                 blobs, message, delivering, attempt, backoffs, wire, terminal,
                 synthOut, callbackError, parseVars, triggerVars,
                 sideVars>>

\* A variant whose catch keeps what the stream delivered before it failed.
ProcessItemKeepsPartial ==
  /\ pc = "Retrieving"
  /\ idx <= LoopEnd
  /\ calls' = Append(calls, "search")
  /\ \E searchContent \in LearningTexts :
       \/ /\ learnings' = Append(learnings, searchContent)
          /\ queries' = [queries EXCEPT ![idx].state = "processed",
                                        ![idx].learning = searchContent]
          /\ UNCHANGED raised
       \/ /\ queries' = [queries EXCEPT ![idx].state = "failed",
                                        ![idx].learning = searchContent]
          /\ raised' = raised \cup {idx}
          /\ UNCHANGED learnings
  /\ idx' = idx + 1
  /\ IF idx + 1 <= LoopEnd THEN UNCHANGED <<pc, visited>> ELSE Goto("Synthesizing")
  /\ UNCHANGED <<copy, callbackUrl, appUrl, streamOpen, stream, queryContent,
                 parsed, reportContent, researchError, reportId, reportBlobUrl,
                 blobs, message, delivering, attempt, backoffs, wire, terminal,
                 failedAt, synthOut, callbackError, parseVars, triggerVars,
                 sideVars>>

\* A variant that starts the call of the next item along with this one's.
ProcessItemsTogether ==
  /\ pc = "Retrieving"
  /\ idx <= LoopEnd
  /\ calls' = IF idx + 1 <= LoopEnd THEN calls \o <<"search", "search">>
              ELSE Append(calls, "search")
  /\ \/ \E searchContent \in LearningTexts :
          /\ learnings' = Append(learnings, searchContent)
          /\ queries' = [queries EXCEPT ![idx].state = "processed",
                                        ![idx].learning = searchContent]
          /\ UNCHANGED raised
     \/ /\ queries' = [queries EXCEPT ![idx].state = "failed"]
        /\ raised' = raised \cup {idx}
        /\ UNCHANGED learnings
  /\ idx' = idx + 1
  /\ IF idx + 1 <= LoopEnd THEN UNCHANGED <<pc, visited>> ELSE Goto("Synthesizing")
  /\ UNCHANGED <<copy, callbackUrl, appUrl, streamOpen, stream, queryContent,
                 parsed, reportContent, researchError, reportId, reportBlobUrl,
                 blobs, message, delivering, attempt, backoffs, wire, terminal,
                 failedAt, synthOut, callbackError, parseVars, triggerVars,
                 sideVars>>

\* One iteration: the per-query model call, its stream, and the try/catch.
ProcessItem ==
  /\ pc = "Retrieving"
  /\ idx <= LoopEnd
  /\ calls' = Append(calls, "search")
  /\ \/ \E searchContent \in LearningTexts :
          /\ learnings' = Append(learnings, searchContent)
          /\ queries' = [queries EXCEPT ![idx].state = "processed",
                                        ![idx].learning = searchContent]
          /\ UNCHANGED raised
     \/ /\ queries' = [queries EXCEPT ![idx].state = "failed"]
        /\ raised' = raised \cup {idx}
        /\ UNCHANGED learnings
  /\ idx' = idx + 1
  /\ IF idx + 1 <= LoopEnd THEN UNCHANGED <<pc, visited>> ELSE Goto("Synthesizing")
  /\ UNCHANGED <<copy, callbackUrl, appUrl, streamOpen, stream, queryContent,
                 parsed, reportContent, researchError, reportId, reportBlobUrl,
                 blobs, message, delivering, attempt, backoffs, wire, terminal,
                 failedAt, synthOut, callbackError, parseVars, triggerVars,
                 sideVars>>

\* ------------------------------------------------------------------
\* Step 3, Synthesizing
\* ------------------------------------------------------------------
\* A variant of the inner catch whose upload is not guarded by the error.
InnerCatchThenUpload(msg) ==
  /\ researchError' = msg
  /\ reportContent' = <<"Research completed, but report generation failed: ">> \o msg
  /\ UNCHANGED reportId
  /\ failedAt' = pc
  /\ Goto("Persisting")

\* background/route.ts wraps the synthesis in its own try/catch.
InnerCatch(msg) ==
  /\ researchError' = msg
  /\ reportContent' = <<"Research completed, but report generation failed: ">> \o msg
  /\ UNCHANGED reportId
  /\ failedAt' = pc
  /\ Goto("Notifying")

\* if (!researchError && reportContent): the guard of the upload.
UploadGuard(err, content) == err = NoError /\ content # << >>

\* A variant without the check of background/route.ts for an empty report.
SynthesisDoneNoEmptyCheck(content) ==
  /\ synthOut' = [done |-> TRUE, text |-> content]
  /\ reportContent' = content
  /\ UNCHANGED <<researchError, reportId, failedAt>>
  /\ IF copy # "route" /\ UploadGuard(researchError, content)
       THEN Goto("Persisting")
       ELSE Goto("Notifying")

\* The stream was accumulated to content without a fault.
SynthesisDone(content) ==
  /\ synthOut' = [done |-> TRUE, text |-> content]
  /\ IF copy = "bg" /\ Trim(content) = << >>
       THEN InnerCatch(<<"Generated report is empty">>)
       ELSE /\ reportContent' = content
            /\ UNCHANGED <<researchError, reportId, failedAt>>
            /\ IF copy # "route" /\ UploadGuard(researchError, content)
                 THEN Goto("Persisting")
                 ELSE Goto("Notifying")

\* The synthesis model call and its stream.
Synthesize ==
  /\ pc = "Synthesizing"
  /\ calls' = Append(calls, "report")
  /\ \/ /\ IF copy = "bg"
             THEN InnerCatch(<<"model error">>)
             ELSE OuterCatch(<<"model error">>)
        /\ UNCHANGED synthOut
     \/ \E content \in ReportTexts : SynthesisDone(content)
  /\ UNCHANGED <<copy, callbackUrl, appUrl, streamOpen, stream, queryContent,
                 parsed, queries, idx, learnings, reportBlobUrl, blobs, message,
                 delivering, attempt, backoffs, wire, terminal, raised, callbackError, parseVars, triggerVars,
                 sideVars>>

\* ------------------------------------------------------------------
\* Step 4, Persisting
\* ------------------------------------------------------------------
\* A variant that stores the report under its bare id.
PathnameBareId(id) == <<"reports/", id>>

\* const pathname = reports/${reportId}.md (a template literal)
Pathname(id) == <<"reports/", id, ".md">>

\* A variant whose catch of a rejected put does not clear the report id.
PersistKeepsId ==
  /\ pc = "Persisting"
  /\ calls' = Append(calls, "put")
  /\ \E id \in ReportIds :
       \/ /\ blobs' = Append(blobs, [pathname |-> Pathname(id),
                                     content |-> reportContent])
          /\ reportId' = id
          /\ reportBlobUrl' = "https://blob"
          /\ UNCHANGED <<researchError, reportContent, failedAt>>
       \/ /\ researchError' = <<"Failed to upload report to storage: ", StoreErrorMessage>>
          /\ reportContent' = <<"Research completed, but failed to save report: ",
                                "Failed to upload report to storage: ", StoreErrorMessage>>
          /\ reportId' = id
          /\ failedAt' = pc
          /\ UNCHANGED <<blobs, reportBlobUrl>>
  /\ Goto("Notifying")
  /\ UNCHANGED <<copy, callbackUrl, appUrl, streamOpen, stream, queryContent,
                 parsed, queries, idx, learnings, message, delivering, attempt,
                 backoffs, wire, terminal, raised, synthOut, callbackError, parseVars, triggerVars,
                 sideVars>>

\* reportId = nanoid(); await put(pathname, reportContent, ...) and its try/catch.
Persist ==
  /\ pc = "Persisting"
  /\ calls' = Append(calls, "put")
  /\ \E id \in ReportIds :
       \/ /\ blobs' = Append(blobs, [pathname |-> Pathname(id),
                                     content |-> reportContent])
          /\ reportId' = id
          /\ reportBlobUrl' = "https://blob"
          /\ UNCHANGED <<researchError, reportContent, failedAt>>
       \/ /\ researchError' = <<"Failed to upload report to storage: ", StoreErrorMessage>>
          /\ reportContent' = <<"Research completed, but failed to save report: ",
                                "Failed to upload report to storage: ", StoreErrorMessage>>
          /\ reportId' = Null
          /\ failedAt' = pc
          /\ UNCHANGED <<blobs, reportBlobUrl>>
  /\ Goto("Notifying")
  /\ UNCHANGED <<copy, callbackUrl, appUrl, streamOpen, stream, queryContent,
                 parsed, queries, idx, learnings, message, delivering, attempt,
                 backoffs, wire, terminal, raised, synthOut, callbackError, parseVars, triggerVars,
                 sideVars>>

\* ------------------------------------------------------------------
\* Step 5, Notifying
\* ------------------------------------------------------------------
Query == "<query>"
Took == "<took>"

FailureHead == "[x] Research failed for query: "
SuccessHead == "[ok] Research complete for query: "
WarningHead == "[warn] Research complete for query: "
AmbiguousHead == "[?] Research finished for query: "
InlineHead == "[ok] Research Report for Query: "

\* A variant without the branch for a report id and no base address.
SlackTextMessageNoWarning(err, id, base) ==
  IF err # NoError
    THEN <<FailureHead, Query, Took, "Error: ">> \o err
  ELSE IF id # Null /\ base # Null
    THEN <<SuccessHead, Query, Took, "View Report: ", base, "/report/", id>>
  ELSE <<AmbiguousHead, Query, Took,
         ", but report could not be linked or saved correctly.">>

\* slackTextMessage of background/route.ts and of the blob-storing variant.
SlackTextMessage(err, id, base) ==
  IF err # NoError
    THEN <<FailureHead, Query, Took, "Error: ">> \o err
  ELSE IF id # Null /\ base # Null
    THEN <<SuccessHead, Query, Took, "View Report: ", base, "/report/", id>>
  ELSE IF id # Null /\ base = Null
    THEN <<WarningHead, Query, Took, ", but APP_URL is not set. Report ID: ", id>>
  ELSE <<AmbiguousHead, Query, Took,
         ", but report could not be linked or saved correctly.">>

\* finalSlackPayload.text of route.ts: the report is sent inline.
InlineMessage(err, content) ==
  IF err # NoError
    THEN <<FailureHead, Query, "Error: ">> \o err
    ELSE <<InlineHead, Query>> \o content

TerminalMessage ==
  IF copy = "route"
    THEN InlineMessage(researchError, reportContent)
    ELSE SlackTextMessage(researchError, reportId, appUrl)

\* A variant that notifies of a report only, never of a failure.
NotifyOnSuccessOnly ==
  /\ pc = "Notifying"
  /\ ~delivering
  /\ IF callbackUrl # Null /\ researchError = NoError
       THEN /\ message' = TerminalMessage
            /\ terminal' = Append(terminal, TerminalMessage)
            /\ delivering' = TRUE
            /\ UNCHANGED <<pc, visited>>
       ELSE /\ Goto("Done")
            /\ UNCHANGED <<message, terminal, delivering>>
  /\ UNCHANGED <<copy, callbackUrl, appUrl, streamOpen, stream, queryContent,
                 parsed, queries, idx, learnings, reportContent, researchError,
                 reportId, reportBlobUrl, blobs, attempt, backoffs, wire, calls,
                 raised, failedAt, synthOut, callbackError, parseVars, triggerVars,
                 sideVars>>

\* if (callbackUrl) { compose the message; start its delivery } else { skip }
NotifyStart ==
  /\ pc = "Notifying"
  /\ ~delivering
  /\ IF callbackUrl # Null
       THEN /\ message' = TerminalMessage
            /\ terminal' = Append(terminal, TerminalMessage)
            /\ delivering' = TRUE
            /\ UNCHANGED <<pc, visited>>
       ELSE /\ Goto("Done")
            /\ UNCHANGED <<message, terminal, delivering>>
  /\ UNCHANGED <<copy, callbackUrl, appUrl, streamOpen, stream, queryContent,
                 parsed, queries, idx, learnings, reportContent, researchError,
                 reportId, reportBlobUrl, blobs, attempt, backoffs, wire, calls,
                 raised, failedAt, synthOut, callbackError, parseVars, triggerVars,
                 sideVars>>

maxRetries == 3

\* What one fetch of the callback target ends with: a response of any status,
\* or a rejection, named by what its message holds.
Responses == {"200", "400"}
TransientFaults == {"TLS", "ECONNRESET", "ETIMEDOUT"}
Faults == TransientFaults \cup {"AbortError", "TypeError"}

\* error.message.includes('TLS') || ...('ECONNRESET') || ...('ETIMEDOUT')
isTlsError(fault) == fault \in TransientFaults

\* Math.pow(2, i) * 2000
backoffTime(i) == (2 ^ i) * 2000

\* A variant that retries after every fault, transient or not.
FetchWithRetryAnyFault(outcome, i) ==
  IF outcome \in Responses THEN "return"
  ELSE IF i = maxRetries - 1 THEN "throw"
  ELSE "retry"

\* What fetchWithRetry does after its attempt i ended with outcome.
FetchWithRetry(outcome, i) ==
  IF outcome \in Responses THEN "return"
  ELSE IF ~isTlsError(outcome) \/ i = maxRetries - 1 THEN "throw"
  ELSE "retry"

\* A variant whose catch around the delivery records the fault as the job's error.
DeliverEscalates ==
  /\ pc = "Notifying"
  /\ delivering
  /\ \E outcome \in Responses \cup Faults :
       /\ wire' = Append(wire, [text |-> message, attempt |-> attempt,
                                outcome |-> outcome])
       /\ IF copy = "bg" /\ FetchWithRetry(outcome, attempt) = "retry"
            THEN /\ attempt' = attempt + 1
                 /\ backoffs' = Append(backoffs, backoffTime(attempt))
                 /\ UNCHANGED <<pc, visited, delivering, callbackError, researchError>>
            ELSE /\ delivering' = FALSE
                 /\ callbackError' = IF outcome \in Responses THEN Null ELSE outcome
                 /\ researchError' = IF outcome \in Responses THEN researchError
                                     ELSE <<outcome>>
                 /\ Goto("Done")
                 /\ UNCHANGED <<attempt, backoffs>>
  /\ UNCHANGED <<copy, callbackUrl, appUrl, streamOpen, stream, queryContent,
                 parsed, queries, idx, learnings, reportContent,
                 reportId, reportBlobUrl, blobs, message, terminal, calls, raised,
                 failedAt, synthOut, parseVars, triggerVars,
                 sideVars>>

\* One request to the callback target: the awaited fetch of route.ts and of the
\* blob-storing variant, one attempt of fetchWithRetry in background/route.ts.
\* A rejection is caught and logged by the try/catch around the delivery.
Deliver ==
  /\ pc = "Notifying"
  /\ delivering
  /\ \E outcome \in Responses \cup Faults :
       /\ wire' = Append(wire, [text |-> message, attempt |-> attempt,
                                outcome |-> outcome])
       /\ IF copy = "bg" /\ FetchWithRetry(outcome, attempt) = "retry"
            THEN /\ attempt' = attempt + 1
                 /\ backoffs' = Append(backoffs, backoffTime(attempt))
                 /\ UNCHANGED <<pc, visited, delivering, callbackError>>
            ELSE /\ delivering' = FALSE
                 /\ callbackError' = IF outcome \in Responses THEN Null ELSE outcome
                 /\ Goto("Done")
                 /\ UNCHANGED <<attempt, backoffs>>
  /\ UNCHANGED <<copy, callbackUrl, appUrl, streamOpen, stream, queryContent,
                 parsed, queries, idx, learnings, reportContent, researchError,
                 reportId, reportBlobUrl, blobs, message, terminal, calls, raised,
                 failedAt, synthOut, parseVars, triggerVars,
                 sideVars>>

Next ==
  \/ GenCall
  \/ GenChunk
  \/ GenFault
  \/ GenEnd
  \/ ProcessItem
  \/ Synthesize
  \/ Persist
  \/ NotifyStart
  \/ Deliver

Spec == Init /\ [][Next]_vars

\* ------------------------------------------------------------------
\* The endpoints: the trigger endpoint of each copy (POST of route.ts, POST of
\* the blob-storing variant, the forwarding POST of the second route of
\* route.ts) and the setup of the background endpoint.
\* ------------------------------------------------------------------
\* The bodies a caller may send.
Bodies ==
  {NotJson}
  \cup [json : {TRUE}, query : {Absent, "", "q"},
        callbackUrl : {Absent, "", "https://hook"}, apiKey : {Absent, "key"}]

\* The values of APP_URL that new URL(path, base) accepts as a base.
UrlBases == {"https://app"}

\* await req.json() and requestSchema.parse(body) both succeed: the body is
\* JSON and has a string query (the other fields are optional strings).
ValidShape(b) == b.json /\ b.query # Absent

\* validatedData.callbackUrl || null
CallbackOf(b) == IF b.callbackUrl \in {Absent, ""} THEN Null ELSE b.callbackUrl

\* What await req.json() or requestSchema.parse(body) throws.
ShapeError(b) == IF b.json THEN "validation error" ELSE "invalid json"

\* if (x): a string local that is neither null nor empty.
Set(x) == x \notin {Null, ""}

\* { success: true, message: "Research process started in background." }, 202
Accepted ==
  [status |-> "202", success |-> TRUE,
   text |-> "Research process started in background."]

\* { success: false, error }, 500
Failed(error) == [status |-> "500", success |-> FALSE, text |-> error]

\* A variant that sends the notification whether or not there is a target.
PingedAlways(sent, target, kind) == Append(sent, kind)

\* if (callbackUrl) { fetch(callbackUrl, ...).catch(log) }: the notifications
\* started so far, after one of the given kind for the target.
Pinged(sent, target, kind) ==
  IF Set(target) THEN Append(sent, kind) ELSE sent

\* A variant of the forwarding endpoint's checks that also wants a key.
ConfigErrorWantsKey(sec, base) ==
  IF sec = Null \/ base = Null \/ envKey = Null THEN "Server configuration error."
  ELSE IF base \notin UrlBases THEN "Invalid URL"
  ELSE "none"

\* if (!backgroundTaskSecret) throw; if (!appUrl) throw; new URL(path, appUrl)
ConfigError(sec, base) ==
  IF sec = Null \/ base = Null THEN "Server configuration error."
  ELSE IF base \notin UrlBases THEN "Invalid URL"
  ELSE "none"

\* The catch of the forwarding endpoint: if (callbackUrl && query) notify; 500.
ForwardCatch(sent, target, q, error) ==
  /\ hooks' = IF Set(target) /\ Set(q) THEN Append(sent, "initFailed") ELSE sent
  /\ response' = Failed(error)
  /\ UNCHANGED <<bgCall, providedSecret>>

\* The forwarding endpoint after a valid body: the configuration checks, the
\* accepted ping, the request to the background endpoint, the 202.
Forward(target, q, error) ==
  /\ callbackUrl' = target
  /\ IF error = "none"
       THEN /\ hooks' = Pinged(hooks, target, "accepted")
            /\ bgCall' = "sent"
            /\ providedSecret' = secret
            /\ response' = Accepted
       ELSE ForwardCatch(IF secret # Null /\ appUrl # Null
                           THEN Pinged(hooks, target, "accepted") ELSE hooks,
                         target, q, error)

\* POST of the forwarding endpoint (the second route of route.ts).
ForwardPOST ==
  /\ entry = "trigger"
  /\ copy = "bg"
  /\ response = NoResponse
  /\ IF ValidShape(body)
       THEN Forward(CallbackOf(body), body.query, ConfigError(secret, appUrl))
       ELSE /\ ForwardCatch(hooks, callbackUrl, Null, ShapeError(body))
            /\ UNCHANGED callbackUrl
  /\ UNCHANGED <<copy, pc, appUrl, streamOpen, stream, queryContent, parsed,
                 queries, idx, learnings, reportContent, researchError, reportId,
                 reportBlobUrl, blobs, message, delivering, attempt, backoffs,
                 wire, terminal, calls, raised, visited, failedAt, synthOut,
                 callbackError, parseVars, sideVars, entry, body, secret, envKey,
                 bgResponse, started>>

\* POST of route.ts and of the blob-storing variant: the job runs in-process.
\* The catch notifies if (callbackUrl), which is still null when the body is
\* rejected; after the assignment nothing in the try block throws.
InProcessPOST ==
  /\ entry = "trigger"
  /\ copy \in {"route", "blob"}
  /\ response = NoResponse
  /\ IF ValidShape(body)
       THEN /\ callbackUrl' = CallbackOf(body)
            /\ envKey' = IF Set(body.apiKey) /\ body.apiKey # Absent
                           THEN body.apiKey ELSE envKey
            /\ hooks' = Pinged(hooks, CallbackOf(body), "accepted")
            /\ started' = TRUE
            /\ response' = Accepted
       ELSE /\ hooks' = Pinged(hooks, callbackUrl, "initFailed")
            /\ response' = Failed(ShapeError(body))
            /\ UNCHANGED <<callbackUrl, envKey, started>>
  /\ UNCHANGED <<copy, pc, appUrl, streamOpen, stream, queryContent, parsed,
                 queries, idx, learnings, reportContent, researchError, reportId,
                 reportBlobUrl, blobs, message, delivering, attempt, backoffs,
                 wire, terminal, calls, raised, visited, failedAt, synthOut,
                 callbackError, parseVars, sideVars, entry, body, secret, providedSecret,
                 bgCall, bgResponse>>

\* The catch of the background endpoint's setup: if (callbackUrl && query)
\* notify through fetchWithRetry, not awaited; 500.
BgSetupCatch(target, q) ==
  /\ hooks' = IF Set(target) /\ Set(q) THEN Append(hooks, "setupFailed") ELSE hooks
  /\ bgResponse' = "500"
  /\ bgCall' = "answered"
  /\ UNCHANGED <<envKey, started>>

\* 3. Set API Key: the request's key is written to the environment, else the
\* environment's key is used, else the setup fails.
BgSetKey(target, q, key) ==
  /\ callbackUrl' = target
  /\ IF key # Absent /\ Set(key)
       THEN /\ envKey' = key
            /\ started' = TRUE
            /\ bgCall' = "running"
            /\ UNCHANGED <<hooks, bgResponse>>
     ELSE IF Set(envKey)
       THEN /\ started' = TRUE
            /\ bgCall' = "running"
            /\ UNCHANGED <<envKey, hooks, bgResponse>>
     ELSE BgSetupCatch(target, q)

\* A variant of the check that only compares the header with the secret.
UnauthorizedIfDiffers(provided, configured) == provided # configured

\* providedSecret !== backgroundTaskSecret || !backgroundTaskSecret
Unauthorized(provided, configured) ==
  provided # configured \/ ~Set(configured)

\* POST of background/route.ts up to the start of the research: the secret
\* check, the body, the key.
BgPOST ==
  /\ copy = "bg"
  /\ bgCall = "sent"
  /\ IF Unauthorized(providedSecret, secret)
       THEN /\ bgResponse' = "401"
            /\ bgCall' = "answered"
            /\ UNCHANGED <<callbackUrl, envKey, hooks, started>>
     ELSE IF ~ValidShape(body)
       THEN /\ BgSetupCatch(callbackUrl, Null)
            /\ UNCHANGED callbackUrl
     ELSE BgSetKey(CallbackOf(body), body.query, body.apiKey)
  /\ UNCHANGED <<copy, pc, appUrl, streamOpen, stream, queryContent, parsed,
                 queries, idx, learnings, reportContent, researchError, reportId,
                 reportBlobUrl, blobs, message, delivering, attempt, backoffs,
                 wire, terminal, calls, raised, visited, failedAt, synthOut,
                 callbackError, parseVars, sideVars, entry, body, secret, providedSecret,
                 response>>

\* A variant that answers without awaiting the delivery of the notification.
BgReturnUnawaited ==
  /\ copy = "bg"
  /\ bgCall = "running"
  /\ pc \in {"Notifying", "Done"}
  /\ bgResponse' = "200"
  /\ bgCall' = "answered"
  /\ UNCHANGED <<jobVars, parseVars, sideVars, entry, body, secret, envKey, providedSecret,
                 response, hooks, started>>

\* A variant that answers 500 when the research recorded an error.
BgReturnByOutcome ==
  /\ copy = "bg"
  /\ bgCall = "running"
  /\ pc = "Done"
  /\ bgResponse' = IF researchError = NoError THEN "200" ELSE "500"
  /\ bgCall' = "answered"
  /\ UNCHANGED <<jobVars, parseVars, sideVars, entry, body, secret, envKey, providedSecret,
                 response, hooks, started>>

\* return NextResponse.json({ success: true, ... }) after the notification.
BgReturn ==
  /\ copy = "bg"
  /\ bgCall = "running"
  /\ pc = "Done"
  /\ bgResponse' = "200"
  /\ bgCall' = "answered"
  /\ UNCHANGED <<jobVars, parseVars, sideVars, entry, body, secret, envKey, providedSecret,
                 response, hooks, started>>

\* The request to the background endpoint is rejected before it arrives: the
\* .catch of the forwarding endpoint notifies of a network error.
BgLost ==
  /\ entry = "trigger"
  /\ bgCall = "sent"
  /\ hooks' = Pinged(hooks, callbackUrl, "networkError")
  /\ bgCall' = "lost"
  /\ UNCHANGED <<jobVars, parseVars, sideVars, entry, body, secret, envKey, providedSecret,
                 response, bgResponse, started>>

\* The .then of the forwarding endpoint: a response that is not ok is notified.
ForwardThen ==
  /\ entry = "trigger"
  /\ bgCall = "answered"
  /\ hooks' = IF bgResponse # "200"
                THEN Pinged(hooks, callbackUrl, "triggerFailed") ELSE hooks
  /\ bgCall' = "settled"
  /\ UNCHANGED <<jobVars, parseVars, sideVars, entry, body, secret, envKey, providedSecret,
                 response, bgResponse, started>>

\* A step of the job a request started.
JobStep == started /\ Next

TriggerInit ==
  /\ copy \in Copies
  /\ entry \in IF copy = "bg" THEN {"trigger", "direct"} ELSE {"trigger"}
  /\ body \in Bodies
  /\ secret \in IF copy = "bg" THEN {Null, "s3cr3t"} ELSE {Null}
  /\ appUrl \in CASE copy = "bg" /\ entry = "trigger" ->
                       {Null, "https://app", "not a url"}
                  [] copy = "bg" /\ entry = "direct" -> {"https://app"}
                  [] copy = "blob" -> {Null, "https://app"}
                  [] OTHER -> {Null}
  /\ envKey \in IF copy = "bg" THEN {Null, "envkey"} ELSE {Null}
  /\ providedSecret \in IF entry = "direct" THEN {Null, "wrong", "s3cr3t"} ELSE {Null}
  /\ bgCall = IF entry = "direct" THEN "sent" ELSE "none"
  /\ started = FALSE
  /\ callbackUrl = Null
  /\ JobStart
  /\ EndpointsIdle
  /\ SideIdle
  /\ text = << >>
  /\ presult = NoResult

TriggerNext ==
  \/ ForwardPOST
  \/ InProcessPOST
  \/ BgPOST
  \/ BgReturn
  \/ BgLost
  \/ ForwardThen
  \/ JobStep

SpecTrigger == TriggerInit /\ [][TriggerNext]_vars

\* ------------------------------------------------------------------
\* The notifications the endpoints start and do not await: how they end.
\* ------------------------------------------------------------------
\* How a notification may end.
HookOutcomes == {"delivered", "rejected"}

\* A variant in which a rejected notification fails the request.
HookSettleEscalates ==
  /\ Len(hookLog) < Len(hooks)
  /\ \E outcome \in HookOutcomes :
       /\ hookLog' = Append(hookLog, outcome)
       /\ response' = IF outcome = "rejected"
                        THEN Failed("fetch failed") ELSE response
  /\ UNCHANGED <<jobVars, parseVars, entry, body, secret, envKey, providedSecret,
                 hooks, bgCall, bgResponse, started, jobs, serverKey, view>>

\* fetch(callbackUrl, ...).catch(e => console.error(...)): the oldest pending
\* notification ends; a rejection is logged.
HookSettle ==
  /\ Len(hookLog) < Len(hooks)
  /\ \E outcome \in HookOutcomes : hookLog' = Append(hookLog, outcome)
  /\ UNCHANGED <<jobVars, parseVars, triggerVars, jobs, serverKey, view>>

PingNext ==
  \/ ForwardPOST
  \/ InProcessPOST
  \/ BgPOST
  \/ BgLost
  \/ ForwardThen
  \/ HookSettle

SpecPing == TriggerInit /\ [][PingNext]_vars

\* ------------------------------------------------------------------
\* Executions of the job under fair scheduling: a call of the background
\* endpoint, or a request to the in-process endpoint of the blob-storing
\* variant. The handler runs whenever it can, and every model call, storage
\* call and webhook attempt returns or fails.
\* ------------------------------------------------------------------
LiveInit ==
  /\ TriggerInit
  /\ \/ copy = "bg" /\ entry = "direct"
     \/ copy = "blob"
  /\ body.query # ""
  /\ body.callbackUrl # ""
  /\ envKey = Null
  /\ copy = "blob" => body.apiKey = Absent

LiveNext ==
  \/ InProcessPOST
  \/ BgPOST
  \/ BgReturn
  \/ JobStep

\* The steps of LiveNext again, the failure of the stream ahead of its chunks.
LiveStep ==
  \/ InProcessPOST
  \/ BgPOST
  \/ BgReturn
  \/ started /\ (GenFault \/ Next)

SpecLive == LiveInit /\ [][LiveNext]_vars /\ WF_vars(LiveStep)

\* ------------------------------------------------------------------
\* Requests served side by side by one process: the provider credential.
\* Every copy writes the request's apiKey to process.env, and every model call
\* is made through the default provider google(...), which is given no key
\* and loads GOOGLE_GENERATIVE_AI_API_KEY from process.env for the request.
\* ------------------------------------------------------------------
JobIds == {1, 2}

ApiKeys == {Absent, "k1", "k2"}

\* The model calls of one job: the generation, one per item, the synthesis.
ModelCallsOf(n) == n + 2

\* process.env.GOOGLE_GENERATIVE_AI_API_KEY after if (apiKey) { ... = apiKey }
KeyAfter(key, env) == IF key # Absent /\ Set(key) THEN key ELSE env

\* 3. Set API Key of the background endpoint throws when neither the request
\* nor the environment has a key; the other copies have no such check.
KeyMissing(c, key, env) == c = "bg" /\ KeyAfter(key, env) = Null

\* POST of request j up to the start of its research.
KeySet(j) ==
  /\ jobs[j].at = "received"
  /\ envKey' = KeyAfter(jobs[j].apiKey, envKey)
  /\ jobs' = [jobs EXCEPT ![j].at =
                IF KeyMissing(copy, jobs[j].apiKey, envKey)
                  THEN "rejected" ELSE "running"]
  /\ UNCHANGED <<jobVars, parseVars, entry, body, secret, providedSecret,
                 response, hooks, bgCall, bgResponse, started, hookLog,
                 serverKey, view>>

\* streamText({ model: google(...), ... }) of request j: the credential is the
\* one process.env holds when the call is made.
KeyedCall(j) ==
  /\ jobs[j].at = "running"
  /\ Len(jobs[j].used) < ModelCallsOf(MaxQueries)
  /\ jobs' = [jobs EXCEPT ![j].used = Append(@, envKey)]
  /\ UNCHANGED <<jobVars, parseVars, triggerVars, hookLog, serverKey, view>>

\* The job of request j ends, after all its calls or after a failed one.
KeyedEnd(j) ==
  /\ jobs[j].at = "running"
  /\ jobs[j].used # << >>
  /\ jobs' = [jobs EXCEPT ![j].at = "done"]
  /\ UNCHANGED <<jobVars, parseVars, triggerVars, hookLog, serverKey, view>>

KeysInit ==
  /\ copy \in Copies
  /\ callbackUrl = Null
  /\ appUrl = Null
  /\ JobStart
  /\ text = << >>
  /\ presult = NoResult
  /\ entry = "trigger"
  /\ body = NotJson
  /\ secret = Null
  /\ providedSecret = Null
  /\ bgCall = "none"
  /\ started = FALSE
  /\ EndpointsIdle
  /\ view = NoView
  /\ serverKey \in {Null, "envkey"}
  /\ envKey = serverKey
  /\ jobs \in [JobIds -> [apiKey : ApiKeys, at : {"received"}, used : {<< >>}]]

KeysNext ==
  \E j \in JobIds :
    \/ KeySet(j)
    \/ KeyedCall(j)
    \/ KeyedEnd(j)

SpecKeys == KeysInit /\ [][KeysNext]_vars

\* ------------------------------------------------------------------
\* The report viewer: getReportData and ReportPage.
\* ------------------------------------------------------------------
\* props.params.reportId: missing, or an id.
ViewIds == {"", "id1"}

\* The pathnames the store may hold: the report's, one it is a prefix of,
\* another report's.
StorePathnames ==
  {Pathname("id1"), Pathname("id1") \o <<".bak">>, Pathname("id2")}

\* A stored blob; its content is taken whole, empty or markdown.
StoreBlobs == [pathname : StorePathnames, content : {"", "# R"}]

\* The store: up to two blobs of different pathnames.
Stores ==
  {<< >>}
  \cup {<<b>> : b \in StoreBlobs}
  \cup {<<b[1], b[2]>> : b \in {c \in StoreBlobs \X StoreBlobs :
                                  c[1].pathname # c[2].pathname}}

\* The pathname starts with the prefix.
HasPrefix(pathname, prefix) ==
  /\ Len(pathname) >= Len(prefix)
  /\ SubSeq(pathname, 1, Len(prefix)) = prefix

\* list({ prefix, limit: 1 }): at most one of the blobs under the prefix.
Listings(store, prefix) ==
  IF \E n \in DOMAIN store : HasPrefix(store[n].pathname, prefix)
    THEN {<<store[n]>> : n \in {m \in DOMAIN store :
                                  HasPrefix(store[m].pathname, prefix)}}
    ELSE {<< >>}

\* A variant of the test that takes whatever single blob was listed.
ListedMatchAny(listing, pathname) == Len(listing) = 1

\* blobs.length === 1 && blobs[0].pathname === pathname
ListedMatch(listing, pathname) ==
  Len(listing) = 1 /\ listing[1].pathname = pathname

\* error when the listing does not match.
ListedError(listing) ==
  IF Len(listing) > 0 THEN "Report identifier mismatch." ELSE "Report not found."

\* What ReportPage does with { reportMarkdown, error }.
Rendered(reportMarkdown, error) ==
  IF error # Null /\ ~Set(reportMarkdown)
    THEN IF error \in {"Report not found.", "Report identifier mismatch."}
           THEN "notFound" ELSE "genericError"
  ELSE IF ~Set(reportMarkdown) THEN "notFound"
  ELSE "report"

\* ReportPage up to the end of await list(...) in getReportData: an id that
\* is no non-empty string is not found at once; list() rejects, or lists.
ViewList ==
  /\ view.stage = "start"
  /\ IF view.id = ""
       THEN view' = [view EXCEPT !.stage = "shown", !.shown = "notFound"]
       ELSE \/ view' = [view EXCEPT !.stage = "data", !.listError = TRUE,
                                    !.error = "Error loading report: list"]
            \/ \E listing \in Listings(view.store, Pathname(view.id)) :
                 view' = IF ListedMatch(listing, Pathname(view.id))
                           THEN [view EXCEPT !.stage = "fetching",
                                             !.listing = listing]
                           ELSE [view EXCEPT !.stage = "data",
                                             !.listing = listing,
                                             !.error = ListedError(listing)]
  /\ UNCHANGED <<jobVars, parseVars, triggerVars, hookLog, jobs, serverKey>>

\* await fetch(blobUrl): a response that is ok, one that is not, a rejection.
ViewFetch ==
  /\ view.stage = "fetching"
  /\ \E fetched \in {"ok", "notOk", "rejected"} :
       view' = IF fetched = "ok"
                 THEN [view EXCEPT !.stage = "data", !.fetched = fetched,
                                   !.reportMarkdown = view.listing[1].content]
                 ELSE [view EXCEPT !.stage = "data", !.fetched = fetched,
                                   !.error = "Error loading report: fetch"]
  /\ UNCHANGED <<jobVars, parseVars, triggerVars, hookLog, jobs, serverKey>>

\* ReportPage after await getReportData(reportId).
ViewRender ==
  /\ view.stage = "data"
  /\ view' = [view EXCEPT !.stage = "shown",
                          !.shown = Rendered(view.reportMarkdown, view.error)]
  /\ UNCHANGED <<jobVars, parseVars, triggerVars, hookLog, jobs, serverKey>>

ViewInit ==
  /\ copy = "bg"
  /\ callbackUrl = Null
  /\ appUrl = Null
  /\ JobStart
  /\ text = << >>
  /\ presult = NoResult
  /\ entry = "viewer"
  /\ body = NotJson
  /\ secret = Null
  /\ envKey = Null
  /\ providedSecret = Null
  /\ bgCall = "none"
  /\ started = FALSE
  /\ EndpointsIdle
  /\ jobs = << >>
  /\ serverKey = Null
  /\ view \in {[NoView EXCEPT !.id = i, !.store = st, !.stage = "start"] :
                 i \in ViewIds, st \in Stores}

ViewNext ==
  \/ ViewList
  \/ ViewFetch
  \/ ViewRender

SpecViewer == ViewInit /\ [][ViewNext]_vars

\* ------------------------------------------------------------------
\* Properties of the job (checked under Spec)
\* ------------------------------------------------------------------
Range(f) == {f[x] : x \in DOMAIN f}

\* C1: a job that was given a callback target issues exactly one terminal
\* notification, whatever the outcome: never more than one is composed, every
\* request sent to the target carries that one message, and a finished job has
\* composed one and sent it at least once.
C1_ExactlyOneTerminal ==
  /\ Len(terminal) <= 1
  /\ \A n \in 1..Len(wire) : terminal # << >> /\ wire[n].text = terminal[1]
  /\ callbackUrl = Null => wire = << >>
  /\ (pc = "Done" /\ callbackUrl # Null) => (Len(terminal) = 1 /\ Len(wire) >= 1)

\* A job with a callback target failed, was notified of in more than one
\* request (retries of the same message), and is finished.
C1_Witness ==
  /\ pc = "Done"
  /\ callbackUrl # Null
  /\ researchError # NoError
  /\ Len(terminal) = 1
  /\ Len(wire) > 1

\* The texts of the processed items, in the items' order.
ProcessedTexts(items) ==
  LET done == SelectSeq(items, LAMBDA it : it.state = "processed")
  IN [n \in 1..Len(done) |-> done[n].learning]

\* C2: once Retrieving has ended, exactly the items whose call or stream raised
\* are failed, every other item is processed, the job went on to Synthesizing,
\* and the learnings are the texts of the processed items in input order.
C2_PerItemIsolation ==
  "Synthesizing" \in Range(visited) =>
    /\ \A n \in 1..Len(queries) :
         queries[n].state = IF n \in raised THEN "failed" ELSE "processed"
    /\ learnings = ProcessedTexts(queries)
    /\ "report" \in Range(calls) \/ pc = "Synthesizing"

\* C3: the steps are entered in the fixed order, a caught failure leads
\* straight to Notifying, nothing but the generation call was issued when the
\* generation failed, no put was issued when the synthesis failed, the job
\* never finishes without passing through Notifying, and Retrieving is left
\* as soon as no item remains.
C3_StepOrder ==
  /\ visited[1] = "Generating"
  /\ visited[Len(visited)] = pc
  /\ \A n \in 1..(Len(visited) - 1) : Rank(visited[n]) < Rank(visited[n + 1])
  /\ \A n \in 1..(Len(visited) - 1) :
       (visited[n] = failedAt) => (visited[n + 1] = "Notifying")
  /\ failedAt = "Generating" => calls = <<"generate">>
  /\ failedAt = "Synthesizing" => "put" \notin Range(calls)
  /\ pc = "Done" => "Notifying" \in Range(visited)
  /\ pc = "Retrieving" => idx \in 1..Len(queries)

\* A job whose synthesis failed after its queries were processed is finished.
C3_Witness ==
  /\ pc = "Done"
  /\ failedAt = "Synthesizing"
  /\ visited = <<"Generating", "Retrieving", "Synthesizing", "Notifying", "Done">>
  /\ "search" \in Range(calls)

\* C4: once Retrieving has ended, every generated item was handed to the
\* processor, in generation order: one per-query call per item, and no item is
\* left unprocessed.
C4_AllItemsHandled ==
  "Synthesizing" \in Range(visited) =>
    /\ \A n \in 1..Len(queries) : queries[n].state # "unprocessed"
    /\ Len(SelectSeq(calls, LAMBDA c : c = "search")) = Len(queries)

\* The last parse result is a non-empty array the query schema accepts.
UsableQueries ==
  /\ parsed.state \in {"successful-parse", "repaired-parse"}
  /\ safeParse(parsed.value).success
  /\ parsed.value.k # << >>

\* C5: a per-query call is issued only after the generation yielded a non-empty
\* array the schema accepts; a generation that is over without one has failed
\* in Generating, and the terminal notification is the failure message.
C5_NoUsableQueriesFails ==
  /\ "search" \in Range(calls) => UsableQueries
  /\ (pc # "Generating" /\ ~UsableQueries) =>
       /\ failedAt = "Generating"
       /\ researchError # NoError
       /\ terminal # << >> => terminal[1][1] = FailureHead

\* C6: in every copy the query items are built only from a parsed value the
\* schema validated: they are its validated elements, each with a string query
\* and a string researchGoal.
C6_ItemsOnlyFromValidated ==
  queries # << >> =>
    /\ safeParse(parsed.value).success
    /\ Len(queries) = Len(parsed.value.k)
    /\ \A n \in 1..Len(queries) :
         /\ queries[n].query = GetMember(parsed.value.k[n], KeyQuery)
         /\ queries[n].researchGoal = GetMember(parsed.value.k[n], KeyGoal)
         /\ queries[n].query.t = "string"
         /\ queries[n].researchGoal.t = "string"

\* C9: in every copy a synthesis whose text is empty after trimming is a job
\* failure: an error is recorded in Synthesizing, nothing is put to the store
\* and the terminal notification is the failure message.
C9_EmptySynthesisFails ==
  (synthOut.done /\ Trim(synthOut.text) = << >>) =>
    /\ failedAt = "Synthesizing"
    /\ researchError # NoError
    /\ "put" \notin Range(calls)
    /\ terminal # << >> => terminal[1][1] = FailureHead

\* C10: in the storing copies a synthesis that yields a non-blank report leads
\* to a put; an accepted put stored the synthesized report, once, under
\* reports/{id}.md for the id the job keeps, and with a base address the
\* terminal notification is the success message whose link ends in that id.
C10_StorageSuccess ==
  copy \in {"blob", "bg"} =>
    /\ (synthOut.done /\ Trim(synthOut.text) # << >> /\ pc \in {"Notifying", "Done"})
         => "put" \in Range(calls)
    /\ blobs # << >> =>
         /\ Len(blobs) = 1
         /\ reportId \in ReportIds
         /\ blobs[1] = [pathname |-> <<"reports/", reportId, ".md">>,
                        content |-> synthOut.text]
         /\ researchError = NoError
    /\ (blobs # << >> /\ terminal # << >> /\ appUrl # Null) =>
         terminal[1] = <<SuccessHead, Query, Took, "View Report: ", appUrl,
                         "/report/", reportId>>

\* A stored report was notified of with its link and the job is finished.
C10_Witness ==
  /\ pc = "Done"
  /\ copy \in {"blob", "bg"}
  /\ Trim(synthOut.text) # << >>
  /\ blobs # << >>
  /\ appUrl # Null
  /\ terminal # << >>
  /\ reportId \in Range(terminal[1])

\* C11: when the put of a synthesized report is rejected, the job's error is
\* the upload failure naming the store's message, the report id is cleared,
\* nothing is stored, the report body is replaced by a text holding the store's
\* message, and the terminal message is the failure message with the elapsed
\* time and that error.
C11_StorageFailure ==
  failedAt = "Persisting" =>
    /\ copy \in {"blob", "bg"}
    /\ synthOut.done
    /\ researchError = <<"Failed to upload report to storage: ", StoreErrorMessage>>
    /\ reportId = Null
    /\ blobs = << >>
    /\ StoreErrorMessage \in Range(reportContent)
    /\ reportContent # synthOut.text
    /\ terminal # << >> =>
         terminal[1] = <<FailureHead, Query, Took, "Error: ">> \o researchError

\* A job whose put was rejected sent its terminal message and is finished.
C11_Witness ==
  /\ pc = "Done"
  /\ failedAt = "Persisting"
  /\ "put" \in Range(calls)
  /\ terminal # << >>
  /\ StoreErrorMessage \in Range(terminal[1])

\* The four kinds of terminal message of the storing copies.
MessageKinds == {FailureHead, SuccessHead, WarningHead, AmbiguousHead}

\* C12: in the storing copies the terminal message is one of four distinct
\* kinds: the failure message iff an error is set; the link message iff there is
\* no error, an id and a base address; the warning with the raw id iff no error,
\* an id and no base address; the ambiguous message iff no error and no id.
C12_FourMessageKinds ==
  (copy \in {"blob", "bg"} /\ terminal # << >>) =>
    /\ Cardinality(MessageKinds) = 4
    /\ terminal[1][1] \in MessageKinds
    /\ terminal[1][1] = FailureHead <=> researchError # NoError
    /\ terminal[1][1] = SuccessHead <=>
         (researchError = NoError /\ reportId # Null /\ appUrl # Null)
    /\ terminal[1][1] = WarningHead <=>
         (researchError = NoError /\ reportId # Null /\ appUrl = Null)
    /\ terminal[1][1] = AmbiguousHead <=>
         (researchError = NoError /\ reportId = Null)
    /\ terminal[1][1] = FailureHead =>
         (Took \in Range(terminal[1]) /\ researchError[1] \in Range(terminal[1]))
    /\ terminal[1][1] = SuccessHead =>
         (appUrl \in Range(terminal[1]) /\ reportId \in Range(terminal[1]))
    /\ terminal[1][1] = WarningHead => reportId \in Range(terminal[1])

\* A stored report was notified of by its raw id, no base address being set.
C12_Witness ==
  /\ pc = "Done"
  /\ terminal # << >>
  /\ terminal[1][1] = WarningHead
  /\ appUrl = Null
  /\ blobs # << >>

\* The outcomes of the attempts made so far, in order.
Outcomes == [n \in 1..Len(wire) |-> wire[n].outcome]

\* C13: fetchWithRetry makes at most maxRetries attempts, numbered in order;
\* every attempt but the last failed with a transient fault, so the delivery
\* stops at the first response (of any status) and at the first other fault;
\* while it goes on fewer than maxRetries attempts were made; a delivery that
\* ended without a response raised the last attempt's fault to its caller.
C13_RetryBudget ==
  copy = "bg" =>
    /\ Len(wire) <= maxRetries
    /\ \A n \in 1..Len(wire) : wire[n].attempt = n - 1
    /\ \A n \in 1..(Len(wire) - 1) : wire[n].outcome \in TransientFaults
    /\ (delivering /\ wire # << >>) =>
         (wire[Len(wire)].outcome \in TransientFaults /\ Len(wire) < maxRetries)
    /\ (pc = "Done" /\ wire # << >>) =>
         /\ wire[Len(wire)].outcome \in Responses => callbackError = Null
         /\ wire[Len(wire)].outcome \notin Responses =>
              callbackError = wire[Len(wire)].outcome
         /\ wire[Len(wire)].outcome \in TransientFaults => Len(wire) = maxRetries

\* The target reset the connection twice and answered the third attempt.
C13_Witness ==
  /\ copy = "bg"
  /\ pc = "Done"
  /\ Outcomes = <<"ECONNRESET", "ECONNRESET", "200">>
  /\ callbackError = Null

\* C14: the wait after the k-th failed transient attempt of the notifier is
\* 2^k seconds: 2 s after the first, 4 s after the second, 8 s after the third.
C14_BackoffSchedule ==
  copy = "bg" =>
    \A k \in 1..Len(wire) :
      wire[k].outcome \in TransientFaults =>
        (Len(backoffs) >= k /\ backoffs[k] = (2 ^ k) * 1000)

\* The faults the notifier is to treat as transient: connection reset, timeout
\* (the abort by its own timer included) and TLS failure.
TransientAsClaimed == {"TLS", "ECONNRESET", "ETIMEDOUT", "AbortError"}

\* C15: the notifier goes on to a further attempt after attempt n if and only
\* if attempt n failed with a transient fault and attempts remain.
C15_RetryIffTransient ==
  copy = "bg" =>
    \A n \in 1..Len(wire) :
      (attempt > wire[n].attempt) <=>
        (wire[n].outcome \in TransientAsClaimed /\ n < maxRetries)

\* C16: in every copy a terminal delivery whose first attempt failed with a
\* transient fault is not given up before a further attempt was made.
C16_TerminalDeliveryRetried ==
  (pc = "Done" /\ wire # << >> /\ wire[1].outcome \in TransientFaults) =>
    Len(wire) >= 2

\* C17: a step of the terminal delivery never changes the job's error, report
\* id, report body or stored report, and a fault the delivery ends with is only
\* kept by the catch around it while the job goes on to its end.
C17_DeliveryFailureContained ==
  /\ [](callbackError # Null => pc = "Done")
  /\ [][(pc = "Notifying" /\ delivering) =>
          /\ researchError' = researchError
          /\ reportId' = reportId
          /\ reportContent' = reportContent
          /\ blobs' = blobs
          /\ (~delivering' => pc' = "Done")]_vars

\* A stored report's notification exhausted the retry budget; the job is
\* finished with its report and without an error.
C17_Witness ==
  /\ pc = "Done"
  /\ Len(wire) = maxRetries
  /\ callbackError \in TransientFaults
  /\ researchError = NoError
  /\ blobs # << >>
  /\ reportId # Null



\* The positions of the calls log that hold the given operation.
CallsOf(op) == {i \in DOMAIN calls : calls[i] = op}

\* The step that issues an operation, by its place in the order of the steps.
StepOfCall(op) ==
  CASE op = "generate" -> 1
    [] op = "search" -> 2
    [] op = "report" -> 3
    [] op = "put" -> 4

\* C22: a job has at most one external operation in flight. The generation
\* stream is consumed with nothing else issued, the terminal delivery runs
\* with nothing else issued, the operations are issued in the order of the
\* steps, and the call of an item is issued only when every item before it
\* was processed or has failed.
C22_NoIntraJobParallelism ==
  /\ [](/\ ~(delivering /\ pc = "Generating")
        /\ (delivering => pc = "Notifying")
        /\ Cardinality(CallsOf("search")) = idx - 1
        /\ \A i \in DOMAIN queries :
             (i < idx) <=> (queries[i].state # "unprocessed")
        /\ \A i, j \in DOMAIN calls :
             i < j => StepOfCall(calls[i]) <= StepOfCall(calls[j])
        /\ Cardinality(CallsOf("generate")) <= 1
        /\ Cardinality(CallsOf("report")) <= 1
        /\ Cardinality(CallsOf("put")) <= 1)
  /\ [][((pc = "Generating" /\ streamOpen) \/ delivering) => calls' = calls]_vars

\* A job of two items, one failed and one processed, stored its report and
\* delivered its notification at the second attempt.
C22_Witness ==
  /\ pc = "Done"
  /\ copy = "bg"
  /\ Len(queries) >= 2
  /\ raised # {}
  /\ learnings # << >>
  /\ blobs # << >>
  /\ Len(wire) >= 2


\* C25: the query items are never removed and only move forward. Once the
\* list is set its length and the items' query and researchGoal stay; an
\* item's state changes only from unprocessed, to processed or to failed; an
\* item that is not processed has an empty learning, also when its stream
\* failed; and the learnings are the learning texts of the processed items in
\* the items' order.
C25_ItemsOnlyMoveForward ==
  /\ [](/\ \A n \in DOMAIN queries :
             /\ queries[n].state \in {"unprocessed", "processed", "failed"}
             /\ (queries[n].state # "processed" => queries[n].learning = << >>)
        /\ learnings = ProcessedTexts(queries))
  /\ [][queries # << >> =>
          /\ Len(queries') = Len(queries)
          /\ \A n \in DOMAIN queries :
               /\ queries'[n].query = queries[n].query
               /\ queries'[n].researchGoal = queries[n].researchGoal
               /\ (queries'[n].state # queries[n].state =>
                     /\ queries[n].state = "unprocessed"
                     /\ queries'[n].state \in {"processed", "failed"})
               /\ (queries'[n].learning # queries[n].learning =>
                     /\ queries[n].state = "unprocessed"
                     /\ queries'[n].state = "processed")]_vars

\* The first item's stream failed and the second item was processed.
C25_Witness ==
  /\ Len(queries) >= 2
  /\ queries[1].state = "failed"
  /\ queries[1].learning = << >>
  /\ queries[2].state = "processed"
  /\ learnings = <<queries[2].learning>>


\* C26: a job issues at most one put and generates at most one report id,
\* and only when it succeeded so far: the query generation gave items, the
\* synthesis ended with a text that is not empty after trimming, and no error
\* was recorded before the put.
C26_ReportAtMostOnce ==
  /\ Cardinality(CallsOf("put")) <= 1
  /\ Len(blobs) <= 1
  /\ (reportId # Null => ("put" \in Range(calls) /\ blobs # << >>))
  /\ ("put" \in Range(calls) =>
        /\ queries # << >>
        /\ "Synthesizing" \in Range(visited)
        /\ synthOut.done
        /\ Trim(synthOut.text) # << >>
        /\ failedAt \in {"none", "Persisting"})


\* C29: in the early-exit copies the buffer is parsed after every chunk, and
\* once the buffer yields a non-empty array the schema accepts, the stream is
\* left: no further chunk is consumed, the buffer and the parse result stay,
\* and the query items are the elements of the array parsed from that prefix.
C29_EarlyExitAtFirstUsable ==
  /\ []((copy # "bg" /\ UsableQueries) =>
          /\ pc # "Generating"
          /\ parsed = parsePartialJsonOf(copy, removeJsonMarkdown(queryContent))
          /\ Len(queries) = Len(parsed.value.k)
          /\ \A n \in DOMAIN queries :
               /\ queries[n].query = GetMember(parsed.value.k[n], KeyQuery)
               /\ queries[n].researchGoal = GetMember(parsed.value.k[n], KeyGoal))
  /\ [][(copy # "bg" /\ queryContent' # queryContent) =>
          /\ queryContent' = queryContent \o Head(stream)
          /\ stream' = Tail(stream)
          /\ parsed' = parsePartialJsonOf(copy, removeJsonMarkdown(queryContent'))]_vars
  /\ [][(copy # "bg" /\ UsableQueries) =>
          /\ stream' = stream
          /\ queryContent' = queryContent
          /\ parsed' = parsed]_vars

\* A job that took its queries from the first chunk and left the second
\* chunk of the stream unconsumed is finished.
C29_Witness ==
  /\ copy # "bg"
  /\ UsableQueries
  /\ stream # << >>
  /\ queries # << >>
  /\ pc = "Done"


\* C33: when the terminal message is composed, the recorded error and the
\* report id exclude each other: an error means the report id is null; a
\* failure message carries no report id or link; a success message (with a
\* link, or with the raw id) is only composed for a report that was stored.
C33_ErrorExcludesReportId ==
  pc \in {"Notifying", "Done"} =>
    /\ researchError # NoError => reportId = Null
    /\ \A i \in DOMAIN terminal :
         /\ terminal[i][1] = FailureHead =>
              /\ reportId = Null
              /\ "/report/" \notin Range(terminal[i])
         /\ terminal[i][1] \in {SuccessHead, WarningHead} =>
              /\ researchError = NoError
              /\ reportId # Null
              /\ \E j \in DOMAIN blobs : blobs[j].pathname = Pathname(reportId)

\* The put was rejected and the failure was notified.
C33_Witness ==
  /\ copy \in {"blob", "bg"}
  /\ failedAt = "Persisting"
  /\ researchError # NoError
  /\ reportId = Null
  /\ terminal # << >>
  /\ terminal[1][1] = FailureHead


\* C34: in the background endpoint's copy the ambiguous-outcome message is
\* never composed: a run that reaches the terminal notification with no
\* recorded error has a report id, so its message is the success message with
\* a link or the message with the raw id and a warning.
C34_AmbiguousUnreachable ==
  (copy = "bg" /\ pc \in {"Notifying", "Done"}) =>
    /\ researchError = NoError => reportId # Null
    /\ \A i \in DOMAIN terminal :
         /\ terminal[i][1] # AmbiguousHead
         /\ researchError = NoError =>
              terminal[i][1] \in {SuccessHead, WarningHead}

\* A run of that copy without an error composed the message with the raw id.
C34_Witness ==
  /\ copy = "bg"
  /\ researchError = NoError
  /\ appUrl = Null
  /\ terminal # << >>
  /\ terminal[1][1] = WarningHead


\* Every query item of the job failed.
AllItemsFailed ==
  /\ queries # << >>
  /\ \A n \in DOMAIN queries : queries[n].state = "failed"

\* C35: when every query item fails in Retrieving the job is not failed: no
\* error is recorded by Retrieving, the job goes on to Synthesizing and the
\* synthesis call is issued with an empty list of learnings; an error can only
\* come from the synthesis or the put that follow.
C35_AllItemsFailedNotFatal ==
  AllItemsFailed =>
    /\ learnings = << >>
    /\ failedAt \in {"none", "Synthesizing", "Persisting"}
    /\ (researchError # NoError => failedAt # "none")
    /\ "Synthesizing" \in Range(visited)
    /\ (pc # "Synthesizing" => "report" \in Range(calls))

\* A job whose items all failed stored its report and composed the success
\* message.
C35_Witness ==
  /\ AllItemsFailed
  /\ Len(queries) >= 2
  /\ learnings = << >>
  /\ researchError = NoError
  /\ blobs # << >>
  /\ terminal # << >>
  /\ terminal[1][1] = SuccessHead


\* What background/route.ts makes of a validated value: the query items of a
\* non-empty array, else no list.
FullMapped(data) ==
  IF Truthy(data) /\ data.t = "array" /\ data.k # << >>
    THEN MapItems(data) ELSE << >>

FullValidated(validationResult) ==
  IF validationResult.success THEN FullMapped(validationResult.data) ELSE << >>

FullParsed(parsedData) ==
  IF parsedData.state = "failed-parse" THEN << >>
  ELSE FullValidated(safeParse(parsedData.value))

\* The query list of the full-accumulation mode for a whole buffer: clean,
\* parse once, validate, map; no list when one of them fails.
FullAccumulation(buffer) ==
  FullParsed(parsePartialJsonBg(removeJsonMarkdownBg(buffer)))

\* The {query, researchGoal} pairs of a list of query items, in order.
Pairs(items) ==
  [n \in DOMAIN items |-> <<items[n].query, items[n].researchGoal>>]

\* The stream of the generation was iterated without raising, to its end or
\* to the early exit.
StreamTaken ==
  /\ streamOpen
  /\ pc # "Generating"
  /\ ~(failedAt = "Generating" /\ researchError = <<"stream error">>)

\* C38: early exit and full accumulation agree on success. For every chunk
\* sequence whose whole buffer, parsed once and validated as
\* background/route.ts does, gives a non-empty query list, the early-exit
\* loop (a parse after each chunk) gives the same {query, researchGoal}
\* items in the same order.
C38_EarlyExitAgreesWithFull ==
  (copy # "bg" /\ StreamTaken
     /\ FullAccumulation(queryContent \o Concat(stream)) # << >>)
  => Pairs(queries) = Pairs(FullAccumulation(queryContent \o Concat(stream)))

\* An early-exit job took its two items from a stream of two chunks.
C38_Witness ==
  /\ copy # "bg"
  /\ StreamTaken
  /\ queryContent = ArrayText(2)
  /\ Len(queries) = 2
  /\ Pairs(queries) = Pairs(FullAccumulation(queryContent))

\* ------------------------------------------------------------------
\* Properties of the endpoints (checked under SpecTrigger)
\* ------------------------------------------------------------------
\* The trigger's response for a body, from its shape and the configuration.
TriggerResponseOf(b) ==
  IF ~ValidShape(b) THEN Failed(ShapeError(b))
  ELSE IF copy # "bg" THEN Accepted
  ELSE IF secret = Null \/ appUrl = Null THEN Failed("Server configuration error.")
  ELSE IF appUrl \notin UrlBases THEN Failed("Invalid URL")
  ELSE Accepted

\* The background endpoint's status, from the secret, the shape and the key.
BgResponseOf(b) ==
  IF providedSecret # secret \/ secret = Null THEN "401"
  ELSE IF ~ValidShape(b) THEN "500"
  ELSE IF b.apiKey = Absent /\ envKey = Null THEN "500"
  ELSE "200"

\* C18: a request without a callbackUrl, or with an empty one, makes no
\* endpoint and no pipeline send a webhook request and is not an error; the
\* HTTP responses are those the shape and the configuration alone determine,
\* and the notification step of a job without a target only finishes the job:
\* the error, the report, the store and the model calls stay as they were.
C18_AbsentCallbackNoOp ==
  /\ [](CallbackOf(body) = Null =>
          /\ callbackUrl = Null
          /\ hooks = << >>
          /\ wire = << >>
          /\ terminal = << >>
          /\ ~delivering
          /\ callbackError = Null)
  /\ [](/\ response \in {NoResponse, TriggerResponseOf(body)}
        /\ bgResponse \in {"none", BgResponseOf(body)})
  /\ [][(pc = "Notifying" /\ callbackUrl = Null) =>
          /\ pc' = "Done"
          /\ researchError' = researchError
          /\ reportId' = reportId
          /\ reportContent' = reportContent
          /\ blobs' = blobs
          /\ calls' = calls]_vars

\* A request with an empty callbackUrl was accepted and its job stored a
\* report and finished.
C18_Witness ==
  /\ body.callbackUrl = ""
  /\ response = Accepted
  /\ pc = "Done"
  /\ researchError = NoError
  /\ blobs # << >>
  /\ hooks = << >>
  /\ wire = << >>

\* C19: a request of a valid shape, under a valid configuration, is answered
\* with 202 {success: true, message}; the answer is given before any step of
\* the job, with the job started (in-process, or by the request sent to the
\* background endpoint), and it never changes afterwards, whatever the job does.
C19_AcceptedWithoutWaiting ==
  /\ []((/\ entry = "trigger"
         /\ response # NoResponse
         /\ ValidShape(body)
         /\ (copy = "bg" => secret # Null /\ appUrl \in UrlBases))
        => /\ response = Accepted
           /\ (started \/ bgCall # "none"))
  /\ []((entry = "trigger" /\ response = NoResponse) =>
          /\ ~started
          /\ pc = "Generating"
          /\ calls = << >>)
  /\ [][response # NoResponse => response' = response]_vars

\* The caller was answered 202 and the job then failed.
C19_Witness ==
  /\ entry = "trigger"
  /\ response = Accepted
  /\ pc = "Done"
  /\ researchError # NoError

\* C20: a trigger that fails before the job starts leaves the job unstarted
\* (no request to the background endpoint, no model call), answers with an
\* error status and {success: false, error}, and starts a failure notification
\* whenever the request carried a callback target, also when the failure is
\* the validation of another field.
C20_TriggerFailureNotified ==
  (entry = "trigger" /\ response.status = "500") =>
    /\ ~started
    /\ bgCall = "none"
    /\ calls = << >>
    /\ ~response.success
    /\ (Set(body.callbackUrl) /\ body.callbackUrl # Absent
          => "initFailed" \in Range(hooks))



\* C24: a request without an apiKey, served by a process without a key in
\* its environment, is refused to its caller with an error response: it is
\* never answered 202, its job never starts and no model call is issued.
C24_MissingCredentialRejected ==
  (body.apiKey = Absent /\ envKey = Null) =>
    /\ response # Accepted
    /\ ~started
    /\ calls = << >>
    /\ (bgCall = "answered" => bgResponse \in {"401", "500"})


\* C27: the query of a research job is not empty: no endpoint starts the
\* pipeline, and no model call is issued, for a request whose query is the
\* empty string.
C27_NoJobForEmptyQuery ==
  body.query = "" => (~started /\ calls = << >>)


\* C31: a call of the background endpoint whose X-Internal-Secret header is
\* missing or differs from the configured secret, or that arrives when no
\* secret is configured, is answered 401 and nothing else happens: the body
\* is not read, no credential is written, the job is not started, no model
\* call, put or webhook request is made.
C31_UnauthenticatedRejected ==
  (bgCall # "none" /\ (providedSecret # secret \/ secret = Null)) =>
    /\ bgResponse \in {"none", "401"}
    /\ (bgCall = "answered" => bgResponse = "401")
    /\ ~started
    /\ callbackUrl = Null
    /\ envKey \in {Null, "envkey"}
    /\ calls = << >>
    /\ blobs = << >>
    /\ wire = << >>
    /\ hooks = << >>

\* A call with a wrong secret and a key in its body was answered 401.
C31_Witness ==
  /\ entry = "direct"
  /\ providedSecret = "wrong"
  /\ secret # Null
  /\ body.apiKey # Absent
  /\ bgCall = "answered"
  /\ bgResponse = "401"


\* The notifications of a failure among the notifications started so far.
FailureHooks ==
  {i \in DOMAIN hooks :
     hooks[i] \in {"initFailed", "setupFailed", "triggerFailed", "networkError"}}

\* C32: for one triggered request with a callback target, the trigger
\* endpoint and the background task together send at most one failure or
\* terminal message: the callback never receives a failure message of the
\* trigger and also a "failed to start" or terminal message of the task.
C32_AtMostOneFailureOrTerminal ==
  (entry = "trigger" /\ Set(callbackUrl)) =>
    Cardinality(FailureHooks) + Len(terminal) <= 1


\* C36: once the setup of the background endpoint succeeded (secret, body,
\* credential) its response is 200 {success: true}, whatever the research
\* ended with and whether or not the terminal notification was delivered; 500
\* answers a setup failure only, before any step of the research.
C36_BgAnswers200AfterSetup ==
  copy = "bg" =>
    /\ started => bgResponse \in {"none", "200"}
    /\ (started /\ bgCall \in {"answered", "settled"}) => bgResponse = "200"
    /\ bgResponse = "500" => (~started /\ calls = << >> /\ terminal = << >>)
    /\ bgResponse = "200" => (started /\ pc = "Done")

\* The research failed, its notification was given up, and the response is 200.
C36_Witness ==
  /\ copy = "bg"
  /\ started
  /\ researchError # NoError
  /\ callbackError # Null
  /\ bgResponse = "200"


\* C37: the notification events of a request are ordered. The accepted ping
\* is started before the request to the background endpoint is sent, hence
\* before any terminal notification is composed; and the background endpoint
\* answers only when the job is Done, after the delivery of the terminal
\* notification has ended, with a response or by giving up.
C37_NotificationOrder ==
  /\ []((entry = "trigger" /\ copy = "bg" /\ Set(callbackUrl)
           /\ (bgCall # "none" \/ terminal # << >>))
        => (hooks # << >> /\ hooks[1] = "accepted"))
  /\ [][("accepted" \notin Range(hooks) /\ "accepted" \in Range(hooks'))
          => (bgCall = "none" /\ ~started /\ terminal = << >>)]_vars
  /\ [](bgResponse = "200" =>
          /\ pc = "Done"
          /\ ~delivering
          /\ (Set(callbackUrl) =>
                /\ terminal # << >>
                /\ wire # << >>
                /\ wire[Len(wire)].text = terminal[1]
                /\ \/ wire[Len(wire)].outcome \in Responses /\ callbackError = Null
                   \/ wire[Len(wire)].outcome \in Faults
                        /\ callbackError = wire[Len(wire)].outcome))
  /\ [][bgResponse' = "200" => wire' = wire]_vars

\* A forwarded request: the accepted ping, then the terminal notification,
\* given up after the retries, then the response of the background endpoint.
C37_Witness ==
  /\ entry = "trigger"
  /\ hooks = <<"accepted">>
  /\ Len(terminal) = 1
  /\ Len(wire) = maxRetries
  /\ callbackError # Null
  /\ bgResponse = "200"

\* ------------------------------------------------------------------
\* Properties of requests served side by side (checked under SpecKeys)
\* ------------------------------------------------------------------
\* The credential a request asks for: its own apiKey, else the server's.
OwnKey(j) == IF jobs[j].apiKey # Absent THEN jobs[j].apiKey ELSE serverKey

\* C21: under every interleaving of two requests, every model call of a job
\* is made with the credential of the job's own request, or with the server's
\* default when the request has none; never with another request's.
C21_JobsKeepOwnCredential ==
  \A j \in JobIds :
    \A i \in DOMAIN jobs[j].used : jobs[j].used[i] = OwnKey(j)


\* ------------------------------------------------------------------
\* Properties of fair executions (checked under SpecLive)
\* ------------------------------------------------------------------
\* C23: every execution of the background endpoint returns a response, 401,
\* 200 or 500, and every started job reaches Done; a 200 is returned, and Done
\* is reached, only after the terminal notification of a job with a callback
\* target was attempted; every failure of a step ends in a catch of the job.
C23_JobsTerminate ==
  /\ (bgCall = "sent") ~> (bgCall = "answered" /\ bgResponse \in {"401", "200", "500"})
  /\ started ~> (pc = "Done")
  /\ [](bgResponse = "200" => pc = "Done")
  /\ []((pc = "Done" /\ callbackUrl # Null) => (terminal # << >> /\ wire # << >>))
  /\ []((researchError # NoError) => (failedAt # "none" /\ pc \in {"Notifying", "Done"}))

\* A job whose generation failed was reported and the endpoint returned.
C23_Witness ==
  /\ copy = "bg"
  /\ bgResponse = "200"
  /\ pc = "Done"
  /\ failedAt = "Generating"
  /\ wire # << >>


\* ------------------------------------------------------------------
\* Properties of the unawaited notifications (checked under SpecPing)
\* ------------------------------------------------------------------
\* C28: the notifications of the endpoints are fire-and-forget. The response
\* is returned with the accepted ping still pending; however a ping ends,
\* the response is the one the shape and the configuration determine, the
\* job or the request to the background endpoint is started whenever the
\* response is 202, a failure notification is started only by a request that
\* is answered 500, and the end of a ping changes nothing but the log.
C28_ProgressPingsFireAndForget ==
  /\ [](/\ response \in {NoResponse, TriggerResponseOf(body)}
        /\ (response = Accepted => (started \/ bgCall # "none"))
        /\ ("initFailed" \in Range(hooks) => response.status = "500")
        /\ ((entry = "trigger" /\ response = NoResponse) => hookLog = << >>))
  /\ [][hookLog' # hookLog =>
          /\ response' = response
          /\ started' = started
          /\ bgCall' = bgCall
          /\ hooks' = hooks
          /\ UNCHANGED jobVars]_vars

\* The accepted ping was rejected; the caller has its 202 and the job, or
\* the request to the background endpoint, was started.
C28_Witness ==
  /\ response = Accepted
  /\ hooks # << >>
  /\ hooks[1] = "accepted"
  /\ hookLog # << >>
  /\ hookLog[1] = "rejected"
  /\ (started \/ bgCall # "none")


\* ------------------------------------------------------------------
\* Properties of the report viewer (checked under SpecViewer)
\* ------------------------------------------------------------------
\* C30: the viewer shows report content only when the store listed exactly
\* one blob, of pathname reports/{id}.md, and its fetch succeeded; a listing
\* without a blob, or with a blob of another pathname, is shown as not found;
\* a failed listing, and a fetch that is rejected or not ok, are shown as the
\* generic error, never as not found and never as content.
C30_ViewerOutcomes ==
  view.stage = "shown" =>
    /\ (view.shown = "report" =>
          /\ ~view.listError
          /\ Len(view.listing) = 1
          /\ view.listing[1].pathname = Pathname(view.id)
          /\ view.fetched = "ok"
          /\ view.reportMarkdown = view.listing[1].content)
    /\ ((/\ view.id # ""
         /\ ~view.listError
         /\ (view.listing = << >>
               \/ view.listing[1].pathname # Pathname(view.id)))
        => view.shown = "notFound")
    /\ ((view.listError \/ view.fetched \in {"notOk", "rejected"})
        => view.shown = "genericError")

\* The store listed a blob of another pathname under the prefix and the page
\* was shown as not found.
C30_Witness ==
  /\ view.stage = "shown"
  /\ view.id = "id1"
  /\ Len(view.listing) = 1
  /\ view.listing[1].pathname # Pathname(view.id)
  /\ view.shown = "notFound"

\* ------------------------------------------------------------------
\* The parser on its own: every text up to MaxTextLen over ParseAlphabet, and
\* the texts of ParseCorpus, handed to each copy of parsePartialJson.
\* ------------------------------------------------------------------
ParseAlphabet == {"{", "}", ":", ",", DQ, SQ, "a", "1"}

ParseCorpus ==
  { <<"{", DQ, "a", DQ, ":", "1", "}">>,
    <<"{", "a", ":", "1", "}">>,
    <<"{", SQ, "a", SQ, ":", "1", "}">>,
    <<"{", " ", "a", "_", "1", " ", ":", SQ, "b", SQ, ",", "c", ":", "2", "}">>,
    <<"n", "o", "t", " ", "j", "s", "o", "n">>,
    <<DQ, "i", "t", SQ, "s", DQ>>,
    <<"{", DQ, "k", DQ, ":", DQ, "{", "a", ":", "1", DQ, "}">>,
    <<"{", "a", ":", SQ, "i", "t", SQ, "s", SQ, "}">>,
    <<"{", BS, BS, "w", BS, ":", "1", "}">>,
    ArrayText(1),
    LooseArrayText }

ParseInputs ==
  UNION {[1..n -> ParseAlphabet] : n \in 0..MaxTextLen} \cup ParseCorpus

ParseInit ==
  /\ copy \in Copies
  /\ callbackUrl = Null
  /\ appUrl = Null
  /\ JobStart
  /\ text \in ParseInputs
  /\ presult = NoResult
  /\ JobAlone

\* parsePartialJson(text) in the copy.
ParseCall ==
  /\ presult = NoResult
  /\ presult' = parsePartialJsonOf(copy, text)
  /\ UNCHANGED <<jobVars, text, triggerVars, sideVars>>

ParseNext == ParseCall

SpecParse == ParseInit /\ [][ParseNext]_vars

\* ------------------------------------------------------------------
\* Properties of parsePartialJson (checked under SpecParse)
\* ------------------------------------------------------------------
\* The repair as specified: bare identifier keys followed by a colon are wrapped
\* in double quotes, then every single quote becomes a double quote.
RepairBareKeysAndQuotes(t) ==
  ReplaceSingleQuotes(ReplaceAll("bareKey", t, 1, << >>))

\* What the specified repair makes of a text JSON.parse rejects.
SpecifiedRepairResult(again) ==
  IF again.ok THEN ParseResult("repaired-parse", again.val)
  ELSE ParseResult("failed-parse", JNull)

\* C7: in every copy a text that JSON.parse rejects is parsed again after both
\* repairs; the result is repaired-parse with that value when the repaired text
\* parses ({a:1} gives the object with a = 1) and failed-parse when it does not.
C7_RepairsKeysAndQuotes ==
  (presult # NoResult /\ ~JSONparse(text).ok) =>
    presult = SpecifiedRepairResult(JSONparse(RepairBareKeysAndQuotes(text)))

\* C8: parsePartialJson returns for every text; the result is one of the three
\* states, failed-parse carries null, and a text JSON.parse accepts is a
\* successful-parse carrying exactly the value JSON.parse gives.
C8_TotalStrictFirst ==
  presult # NoResult =>
    /\ presult.state \in {"successful-parse", "repaired-parse", "failed-parse"}
    /\ presult.state = "failed-parse" => presult.value = JNull
    /\ JSONparse(text).ok =>
         presult = ParseResult("successful-parse", JSONparse(text).val)

\* A strictly valid text that the repair would change (a string holding an
\* apostrophe) was parsed.
C8_Witness ==
  /\ presult.state = "successful-parse"
  /\ presult.value.t = "string"
  /\ SQ \in Range(presult.value.s)

====
